---- MODULE Spec2Model ----
(***************************************************************************)
(* Model of the workspace synchronisation engine of mcp-cursearch:         *)
(*   - utils/semaphore.ts       Semaphore (take/acquire/release,           *)
(*                              withSemaphore, withRetrySemaphore)         *)
(*   - services/repositoryIndexer.ts  indexProject, autoSyncIfNeeded,      *)
(*                              initialHandshake, uploadFilesChunk,        *)
(*                              incrementalSync                            *)
(*   - services/stateManager.ts load/saveWorkspaceState, runtime cache     *)
(*   - services/fileWatcher.ts  markChanged, schedule, flush, close        *)
(*   - services/codeSearcher.ts readFileWindow, readCodeFromFile           *)
(*   - server.ts                the create_index handler                   *)
(***************************************************************************)
EXTENDS Integers, Sequences, FiniteSets, TLC

\* ------------------------------------------------------------------ bounds
NCallers == 3            \* callers of the Semaphore in SpecSem
MaxSlots == 2            \* largest `max` a Semaphore is built with in SpecSem
MaxRetries == 3          \* largest SEMAPHORE_RETRY_COUNT setting tried

NFiles == 3              \* files of the workspace tree in Spec
BatchFiles == 2          \* INITIAL_UPLOAD_MAX_FILES setting used (files per batch)
MaxRuns == 2             \* indexProject runs in one behaviour
EngineRetries == 2       \* SEMAPHORE_RETRY_COUNT setting used in Spec
EngineSlots == 2         \* SYNC_CONCURRENCY setting used in Spec
MaxIterations == 3       \* SYNC_MAX_ITERATIONS setting used in SpecSync
MaxChanged == 1          \* files changed since the last sync in SpecSync
MaxCopies == 2           \* times one answer may repeat a child hint
NStateCallers == 3       \* concurrent callers of load/saveWorkspaceState in SpecState
MaxDepth == 2            \* longest path (in names) given to encryptPathWindows in SpecPath
MaxLines == 8            \* most lines of a file read by readFileWindow in SpecRead
MaxCalls == 4            \* create_index calls in one behaviour of SpecServer
MaxEvents == 3           \* file-system events delivered to the watcher in SpecWatch
MaxTime == 6             \* clock ticks in one behaviour of SpecWatch
DebounceTicks == 2       \* WATCHER_DEBOUNCE_MS in clock ticks

\* ------------------------------------------------------------- identifiers
Sems == {"lib", "index", "auto"}
Callers == 1..NCallers
LibTasks == {"lib"} \X Callers
IndexTasks == {"index"} \X (1..BatchFiles)
\* calls one incrementalSync or uploadFilesChunk can make: a node task for
\* the root and for every copy of a directory hint, or one per file
AutoSlots == IF 1 + 2 * MaxCopies > 4 THEN 1 + 2 * MaxCopies ELSE 4
AutoTasks == {"auto"} \X (1..AutoSlots)
Tasks == LibTasks \cup IndexTasks \cup AutoTasks

\* Workspace-relative POSIX paths are sequences of names; <<>> is ".".
Root == <<>>
\* readdir order of the files the workspace tree can hold
FileOrder == << <<"a.ts">>, <<"src", "b.ts">>, <<".rc.json">>, <<"src", "lib", "c.ts">> >>
AllFiles == {FileOrder[i] : i \in 1..Len(FileOrder)}
None == "none"                       \* an absent (undefined) field
PathKeys == {"K1", "K2"}             \* values genPathKey() can return
CodebaseIds == {"X", "Y"}            \* ids the service can return
BaseRepoName == "local"              \* `local-${sha256(workspacePath)...}`
FreshRepoName == "local-ts-rnd"      \* `${repoName}-${timestamp}-${randomSuffix}`

NoErr == 0               \* no error recorded
AbortedErr == -1         \* the rejection value "Aborted"
DelayMs == 200           \* DEFAULTS.SEMAPHORE_RETRY_DELAY_MS

VARIABLES
  max,        \* Semaphore.max, per instance
  counter,    \* Semaphore.counter, per instance
  waiting,    \* Semaphore.waiting (FIFO of queued callers), per instance
  aborted,    \* abortSignal.aborted, per instance
  retryCount, \* DEFAULTS.SEMAPHORE_RETRY_COUNT, the configured retries setting
  task,       \* one record per withSemaphore/withRetrySemaphore call
  disk,       \* the persisted workspace record (state.json)
  runtimeCodebaseIds, \* runtime-only cache of the workspace's codebaseId
  tree,       \* the files of the workspace tree (after ignore filtering)
  ix,         \* the indexProject activation (locals and position)
  wt,         \* the file watcher's markChanged activation
  as,         \* the autoSyncIfNeeded activation (locals and position)
  df,         \* incrementalSync: queue, visited, r, n, s, iterations
  changedFiles,      \* files whose content differs from the remote index
  syncMaxIterations, \* DEFAULTS.SYNC_MAX_ITERATIONS
  stateFile,         \* content of state.json, per workspace root
  tmpFile,           \* content of state.json.tmp, per workspace root
  workspaceMutexes,  \* the per-workspace Mutex: locked flag and FIFO of waiters
  op,                \* one record per loadWorkspaceState/saveWorkspaceState call
  px,                \* one path on its way through encryptPathWindows and back
  cs,                \* one readCodeFromFile call: its file, range and results
  srv,               \* the MCP server: indexingTasks and the create_index calls
  fw                 \* one FileWatcher: changed set, timer, flushing, markChanged calls

semVars == <<max, counter, waiting, aborted, retryCount, task>>
engVars == <<disk, runtimeCodebaseIds, tree, ix, wt>>
syncVars == <<as, df, changedFiles, syncMaxIterations>>
fsVars == <<stateFile, tmpFile, workspaceMutexes, op>>
auxVars == <<cs, srv, fw>>
vars == <<semVars, engVars, syncVars, fsVars, px, auxVars>>

SemOf(t) == t[1]

\* A call that has not been made yet.
IdleTask == [pc |-> "idle", kind |-> "plain", i |-> 0, maxRetries |-> 0,
             final |-> FALSE, calls |-> 0, waitTime |-> 0,
             lastError |-> NoErr, err |-> NoErr, arg |-> Root]

\* ---------------------------------------------------------------- Semaphore
\* acquire(): `this.counter < this.max`
CanTakeOffByOne(cnt, mx) == cnt <= mx
CanTake(cnt, mx) == cnt < mx

\* acquire() for caller t on semaphore s, applied to task function tk.
AcqCounter(s) == IF CanTake(counter[s], max[s]) THEN counter[s] + 1 ELSE counter[s]
AcqWaiting(s, t) == IF CanTake(counter[s], max[s]) THEN waiting[s] ELSE Append(waiting[s], t)
AcqPc(s) == IF CanTake(counter[s], max[s]) THEN "granted" ELSE "queued"

\* release(): counter--, then take() hands the slot to the first waiter.
RelWakesNever(s) == FALSE
RelWakes(s) == Len(waiting[s]) > 0 /\ CanTake(counter[s] - 1, max[s])
RelCounterLeak(s) == counter[s]
RelCounter(s) == IF RelWakes(s) THEN counter[s] ELSE counter[s] - 1
RelWaiting(s) == IF RelWakes(s) THEN Tail(waiting[s]) ELSE waiting[s]
\* take(): `this.waiting.shift()` is the waiter that is resolved
WokenLast(s) == waiting[s][Len(waiting[s])]
Woken(s) == Head(waiting[s])
RelTaskNobody(s, tk) == tk
RelTask(s, tk) ==
  IF RelWakes(s) THEN [tk EXCEPT ![Woken(s)].pc = "granted"] ELSE tk

\* withSemaphore: `if (this.abortSignal.aborted) return Promise.reject("Aborted")`
AbortedAtStartNever(s) == FALSE
AbortedAtStart(s) == aborted[s]

\* withRetrySemaphore: `const waitTime = delayMs * i`
WaitTimeFlat(i) == DelayMs
WaitTime(i) == DelayMs * i

\* withRetrySemaphore: loop condition `i < maxRetries`
LoopContinuesOffByOne(i, n) == i <= n
LoopContinues(i, n) == i < n

\* What a failed attempt (error e) does to the call: inside the retry loop the
\* error is kept in lastError and the backoff wait starts; in withSemaphore
\* alone, or in the final attempt, the error is thrown to the caller.
AfterFailure(rec, e) ==
  IF rec.kind = "retry" /\ ~rec.final
    THEN [rec EXCEPT !.pc = "backoff", !.lastError = e, !.waitTime = WaitTime(rec.i)]
    ELSE [rec EXCEPT !.pc = "rejected", !.err = e]

\* withSemaphore(fn): `await this.acquire()`
CallWithSemaphore(t) ==
  /\ task[t].pc = "idle"
  /\ LET s == SemOf(t) IN
     /\ counter' = [counter EXCEPT ![s] = AcqCounter(s)]
     /\ waiting' = [waiting EXCEPT ![s] = AcqWaiting(s, t)]
     /\ task' = [task EXCEPT ![t] = [@ EXCEPT !.pc = AcqPc(s), !.kind = "plain", !.final = TRUE]]
  /\ UNCHANGED <<max, aborted, retryCount, engVars, syncVars, fsVars, px, auxVars>>

\* withRetrySemaphore(fn, _, retries, config): abort check, then attempt 1.
CallWithRetry(t, n) ==
  /\ task[t].pc = "idle"
  /\ LET s == SemOf(t) IN
     IF aborted[s]
       THEN /\ task' = [task EXCEPT ![t] = [@ EXCEPT !.pc = "rejected", !.kind = "retry",
                                              !.maxRetries = n, !.err = AbortedErr]]
            /\ UNCHANGED <<counter, waiting>>
       ELSE /\ counter' = [counter EXCEPT ![s] = AcqCounter(s)]
            /\ waiting' = [waiting EXCEPT ![s] = AcqWaiting(s, t)]
            /\ task' = [task EXCEPT ![t] = [@ EXCEPT !.pc = AcqPc(s), !.kind = "retry",
                                              !.maxRetries = n, !.i = 1,
                                              !.final = ~LoopContinues(1, n)]]
  /\ UNCHANGED <<max, aborted, retryCount, engVars, syncVars, fsVars, px, auxVars>>

\* withSemaphore after the await: the abort check, then fn() starts.
Enter(t) ==
  /\ task[t].pc = "granted"
  /\ LET s == SemOf(t) IN
     IF AbortedAtStart(s)
       THEN /\ counter' = [counter EXCEPT ![s] = RelCounter(s)]
            /\ waiting' = [waiting EXCEPT ![s] = RelWaiting(s)]
            /\ task' = RelTask(s, [task EXCEPT ![t] = AfterFailure(@, AbortedErr)])
       ELSE /\ task' = [task EXCEPT ![t] = [@ EXCEPT !.pc = "running", !.calls = @ + 1]]
            /\ UNCHANGED <<counter, waiting>>
  /\ UNCHANGED <<max, aborted, retryCount, engVars, syncVars, fsVars, px, auxVars>>

\* withSemaphore's `finally { this.release() }` when fn() of call t settles,
\* leaving the call in state rec.
SemFinish(t, rec) ==
  LET s == SemOf(t) IN
  /\ counter' = [counter EXCEPT ![s] = RelCounter(s)]
  /\ waiting' = [waiting EXCEPT ![s] = RelWaiting(s)]
  /\ task' = RelTask(s, [task EXCEPT ![t] = rec])

\* fn() returns: finally { release() }, the call resolves.
BodyReturn(t) ==
  /\ task[t].pc = "running"
  /\ SemFinish(t, [task[t] EXCEPT !.pc = "resolved"])
  /\ UNCHANGED <<max, aborted, retryCount, engVars, syncVars, fsVars, px, auxVars>>

\* fn() throws: finally { release() }; the error of invocation number k is k.
BodyThrow(t) ==
  /\ task[t].pc = "running"
  /\ SemFinish(t, AfterFailure(task[t], task[t].calls))
  /\ UNCHANGED <<max, aborted, retryCount, engVars, syncVars, fsVars, px, auxVars>>

\* The setTimeout of the backoff fires: i++, loop test, next withSemaphore.
BackoffDone(t) ==
  /\ task[t].pc = "backoff"
  /\ LET s == SemOf(t) IN
     /\ counter' = [counter EXCEPT ![s] = AcqCounter(s)]
     /\ waiting' = [waiting EXCEPT ![s] = AcqWaiting(s, t)]
     /\ task' = [task EXCEPT ![t] = [@ EXCEPT !.pc = AcqPc(s), !.i = @ + 1,
                                       !.final = ~LoopContinues(task[t].i + 1, task[t].maxRetries)]]
  /\ UNCHANGED <<max, aborted, retryCount, engVars, syncVars, fsVars, px, auxVars>>

\* AbortController.abort()
Abort(s) ==
  /\ ~aborted[s]
  /\ aborted' = [aborted EXCEPT ![s] = TRUE]
  /\ UNCHANGED <<max, counter, waiting, retryCount, task, engVars, syncVars, fsVars, px, auxVars>>


\* ------------------------------------------------------------ SyncState
\* WorkspaceState; `present` tells whether state.json holds a usable record.
\* pendingChanges is a boolean: an absent flag reads as false everywhere
\* (`!st.pendingChanges`, `st.pendingChanges ?? false`).
NoState == [present |-> FALSE, codebaseId |-> None, pathKey |-> None,
            pathKeyHash |-> None, repoName |-> None, seed |-> FALSE,
            pendingChanges |-> FALSE]

\* sha256Hex restricted to the path keys of the model (injective).
sha256Hex(k) == IF k = "K1" THEN "H1" ELSE "H2"

\* loadWorkspaceState: the record, or the minimal state { workspacePath }.
loadWorkspaceState(d) == IF d.present THEN d ELSE NoState

\* saveWorkspaceState: toPersist copies the defined field set.
toPersist(st) == [st EXCEPT !.present = TRUE]

\* Records state.json may hold when the process starts.
DiskInits ==
  {NoState} \cup
  {[present |-> TRUE, codebaseId |-> "X", pathKey |-> k, pathKeyHash |-> h,
    repoName |-> BaseRepoName, seed |-> TRUE, pendingChanges |-> pc] :
     k \in {"K1", None}, h \in {"H1", "H2", None}, pc \in BOOLEAN}

\* ------------------------------------------------------------ indexProject
\* listFiles / readEmbeddableFilesList: the files of the tree, in order.
InTree(f) == f \in tree
embeddableFiles == SelectSeq(FileOrder, InTree)
\* chunkArray(filtered, INITIAL_UPLOAD_MAX_FILES)
NumBatches == (Len(embeddableFiles) + BatchFiles - 1) \div BatchFiles
BatchOfOverlap(b) ==
  LET lo == (b - 1) * (BatchFiles - 1)
      rest == Len(embeddableFiles) - lo
      n == IF rest < BatchFiles THEN rest ELSE BatchFiles
  IN [k \in 1..n |-> embeddableFiles[lo + k]]
BatchOf(b) ==
  LET lo == (b - 1) * BatchFiles
      rest == Len(embeddableFiles) - lo
      n == IF rest < BatchFiles THEN rest ELSE BatchFiles
  IN [k \in 1..n |-> embeddableFiles[lo + k]]

IdleIx == [pc |-> "idle", run |-> 0, loaded |-> NoState, st |-> NoState,
           pathKey |-> None, repoName |-> None, codebaseId |-> None,
           hs1 |-> None, hs2 |-> None, batch |-> 0, saves |-> 0,
           upTo |-> {}, upCalls |-> [f \in AllFiles |-> 0], skipped |-> {},
           attempted |-> {}, threw |-> FALSE, unread |-> FALSE,
           ensures |-> 0, syncs |-> 0, syncTo |-> {}, err |-> None]

\* initialHandshake: `!!(st.pathKey && st.pathKeyHash)`
hasLocalPathKey(st) == st.pathKey # None /\ st.pathKeyHash # None

\* validateCodebasePathKey(codebaseId, pathKey, st).isValid
validateNoCheck(codebaseId, pathKey, st) == TRUE
validateCodebasePathKey(codebaseId, pathKey, st) ==
  IF st.codebaseId = None \/ st.codebaseId # codebaseId THEN TRUE
  ELSE IF st.pathKeyHash # None /\ st.pathKeyHash # sha256Hex(pathKey) THEN FALSE
  ELSE TRUE

\* indexProject: `let pathKey = st.pathKey; if (!pathKey) pathKey = genPathKey()`
\* (k is what genPathKey would return)
SelectsFreshPathKey(st, k) == TRUE
SelectsPathKey(st, k) == st.pathKey # None => k = st.pathKey

\* indexProject up to the handshake: load the record, make seed and pathKey.
IxStart ==
  /\ ix.pc \in {"idle", "done", "failed"}
  /\ ix.run < MaxRuns
  /\ \E k \in PathKeys :
       LET st == loadWorkspaceState(disk) IN
       /\ SelectsPathKey(st, k)
       /\ ix' = [IdleIx EXCEPT !.pc = "handshake", !.run = ix.run + 1,
                               !.loaded = st, !.st = [st EXCEPT !.seed = TRUE],
                               !.pathKey = k,
                               !.repoName = IF st.repoName # None THEN st.repoName
                                                                  ELSE BaseRepoName]
  /\ UNCHANGED <<semVars, disk, runtimeCodebaseIds, tree, wt, syncVars, fsVars, px, auxVars>>

\* initialHandshake: `const pathKeyHash = sha256Hex(pathKey)`
pathKeyHashFixed(pathKey) == "H1"
pathKeyHashOf(pathKey) == sha256Hex(pathKey)

\* indexProject after initialHandshake returned (cid, name): validation, then
\* the new in-memory state that is about to be saved.
AfterHandshake(rec, cid, name) ==
  IF ~validateCodebasePathKey(cid, rec.pathKey, rec.loaded)
    THEN [rec EXCEPT !.pc = "failed", !.err = "pathkey_mismatch", !.codebaseId = cid]
    ELSE [rec EXCEPT !.pc = "save1", !.codebaseId = cid, !.repoName = name,
                     !.st = [@ EXCEPT !.pathKey = rec.pathKey,
                                      !.pathKeyHash = pathKeyHashOf(rec.pathKey),
                                      !.codebaseId = cid, !.repoName = name]]

\* initialHandshake: the service answers the first FastRepoInitHandshakeV2.
IxHandshake(cid, existing) ==
  /\ ix.pc = "handshake"
  /\ ix' = IF cid = None
             THEN [ix EXCEPT !.pc = "failed", !.err = "no_codebase_id"]
           ELSE IF existing /\ ~hasLocalPathKey(ix.loaded)
             THEN [ix EXCEPT !.pc = "rehandshake", !.hs1 = cid]
           ELSE AfterHandshake([ix EXCEPT !.hs1 = cid], cid, ix.repoName)
  /\ UNCHANGED <<semVars, disk, runtimeCodebaseIds, tree, wt, syncVars, fsVars, px, auxVars>>

\* initialHandshake: the answer to the second handshake (modified repoName).
IxRehandshake(cid) ==
  /\ ix.pc = "rehandshake"
  /\ ix' = IF cid = None
             THEN [ix EXCEPT !.pc = "failed", !.err = "no_codebase_id"]
             ELSE AfterHandshake([ix EXCEPT !.hs2 = cid], cid, FreshRepoName)
  /\ UNCHANGED <<semVars, disk, runtimeCodebaseIds, tree, wt, syncVars, fsVars, px, auxVars>>

\* A remote call of indexProject made outside any retry throws.
IxRemoteThrow ==
  /\ ix.pc \in {"handshake", "rehandshake", "ensure", "syncComplete"}
  /\ ix' = [ix EXCEPT !.pc = "failed", !.err = "remote",
                      !.ensures = IF ix.pc = "ensure" THEN @ + 1 ELSE @]
  /\ UNCHANGED <<semVars, disk, runtimeCodebaseIds, tree, wt, syncVars, fsVars, px, auxVars>>

\* The record on disk after the save that follows the handshake.
SavedAfterHandshakeNot(d, st) == d
SavedAfterHandshake(d, st) == toPersist(st)

\* `await saveWorkspaceState(st)` right after the handshake.
IxSave1 ==
  /\ ix.pc = "save1"
  /\ disk' = SavedAfterHandshake(disk, ix.st)
  /\ ix' = [ix EXCEPT !.saves = @ + 1, !.batch = 1,
                      !.pc = IF NumBatches = 0 THEN "save2" ELSE "startBatch"]
  /\ UNCHANGED <<semVars, runtimeCodebaseIds, tree, wt, syncVars, fsVars, px, auxVars>>

\* saveWorkspaceState throws (temp file or rename failed): record unchanged.
IxSaveFail ==
  /\ ix.pc \in {"save1", "save2"}
  /\ ix' = [ix EXCEPT !.pc = "failed", !.err = "persist"]
  /\ UNCHANGED <<semVars, disk, runtimeCodebaseIds, tree, wt, syncVars, fsVars, px, auxVars>>

\* uploadFilesChunk: a new Semaphore, then filesAbs.map(withRetrySemaphore):
\* every call runs acquire() at once, in list order.
SpawnRec(s, k, a) ==
  [IdleTask EXCEPT !.pc = IF k <= max[s] THEN "granted" ELSE "queued",
                   !.kind = "retry", !.maxRetries = retryCount, !.i = 1,
                   !.final = ~LoopContinues(1, retryCount), !.arg = a]
SpawnTasks(s, args) ==
  /\ counter' = [counter EXCEPT ![s] = IF Len(args) < max[s] THEN Len(args) ELSE max[s]]
  /\ waiting' = [waiting EXCEPT ![s] =
                   [j \in 1..(IF Len(args) > max[s] THEN Len(args) - max[s] ELSE 0)
                      |-> <<s, max[s] + j>>]]
  /\ task' = [t \in Tasks |->
                IF SemOf(t) # s THEN task[t]
                ELSE IF t[2] <= Len(args) THEN SpawnRec(s, t[2], args[t[2]])
                ELSE IdleTask]

IxStartBatch ==
  /\ ix.pc = "startBatch"
  /\ SpawnTasks("index", BatchOf(ix.batch))
  /\ ix' = [ix EXCEPT !.pc = "uploading"]
  /\ UNCHANGED <<max, aborted, retryCount, disk, runtimeCodebaseIds, tree, wt, syncVars, fsVars, px, auxVars>>

\* Upload body: readFile failed or the file is oversized: return, no call.
UploadSkip(t) ==
  /\ task[t].pc = "running"
  /\ SemFinish(t, [task[t] EXCEPT !.pc = "resolved"])
  /\ UNCHANGED <<max, aborted, retryCount, engVars, syncVars, fsVars, px, auxVars>>

\* Upload body in indexProject: the file is unreadable or oversized.
IxUploadSkip(t) ==
  /\ task[t].pc = "running"
  /\ SemFinish(t, [task[t] EXCEPT !.pc = "resolved"])
  /\ ix' = [ix EXCEPT !.unread = TRUE]
  /\ UNCHANGED <<max, aborted, retryCount, disk, runtimeCodebaseIds, tree, wt, syncVars, fsVars, px, auxVars>>

\* Upload body: fastUpdateFileV2 was called and answered.
IxUploadOk(t) ==
  /\ task[t].pc = "running"
  /\ SemFinish(t, [task[t] EXCEPT !.pc = "resolved"])
  /\ ix' = [ix EXCEPT !.upCalls[task[t].arg] = @ + 1, !.upTo = @ \cup {ix.codebaseId}]
  /\ UNCHANGED <<max, aborted, retryCount, disk, runtimeCodebaseIds, tree, wt, syncVars, fsVars, px, auxVars>>

\* Upload body: fastUpdateFileV2 was called and threw.
IxUploadThrow(t) ==
  /\ task[t].pc = "running"
  /\ SemFinish(t, AfterFailure(task[t], task[t].calls))
  /\ ix' = [ix EXCEPT !.upCalls[task[t].arg] = @ + 1, !.upTo = @ \cup {ix.codebaseId},
                      !.threw = TRUE]
  /\ UNCHANGED <<max, aborted, retryCount, disk, runtimeCodebaseIds, tree, wt, syncVars, fsVars, px, auxVars>>

Settled(s) == \A t \in Tasks : SemOf(t) = s => task[t].pc \in {"idle", "resolved", "rejected"}

\* uploadFilesChunk returns: Promise.all over calls whose rejection the
\* `.catch` turned into "skip this file".
\* What the settled calls of a batch make of uploadFilesChunk: every call
\* carries `.catch(() => { ... })`, so a rejection never reaches Promise.all.
ChunkOutcomePropagating(rejected) == IF rejected = {} THEN "ensure" ELSE "failed"
ChunkOutcome(rejected) == "ensure"

IxBatchDone ==
  /\ ix.pc = "uploading"
  /\ Settled("index")
  /\ LET rejected == {task[t].arg : t \in {u \in IndexTasks : task[u].pc = "rejected"}} IN
     ix' = [ix EXCEPT !.pc = ChunkOutcome(rejected),
                      !.skipped = @ \cup rejected,
                      !.attempted = @ \cup {task[t].arg : t \in {u \in IndexTasks : task[u].calls > 0}}]
  /\ task' = [t \in Tasks |-> IF SemOf(t) = "index" THEN IdleTask ELSE task[t]]
  /\ UNCHANGED <<max, counter, waiting, aborted, retryCount, disk, runtimeCodebaseIds, tree, wt, syncVars, fsVars, px, auxVars>>

\* runEnsureAndSyncComplete: what follows `await ensureIndexCreated(...)`
AfterEnsureNextBatch == "startBatch"
AfterEnsure == "syncComplete"

\* runEnsureAndSyncComplete: ensureIndexCreated returned.
IxEnsure ==
  /\ ix.pc = "ensure"
  /\ ix' = [ix EXCEPT !.pc = AfterEnsure, !.ensures = @ + 1]
  /\ UNCHANGED <<semVars, disk, runtimeCodebaseIds, tree, wt, syncVars, fsVars, px, auxVars>>

\* runEnsureAndSyncComplete: fastRepoSyncComplete returned; then
\* setRuntimeCodebaseId and the next batch (or the final save).
IxSyncComplete ==
  /\ ix.pc = "syncComplete"
  /\ ix' = [ix EXCEPT !.syncs = @ + 1, !.syncTo = @ \cup {ix.codebaseId},
                      !.batch = @ + 1,
                      !.pc = IF ix.batch < NumBatches THEN "startBatch" ELSE "save2"]
  /\ runtimeCodebaseIds' = ix.codebaseId
  /\ UNCHANGED <<semVars, disk, tree, wt, syncVars, fsVars, px, auxVars>>

\* The final save (pendingChanges: false), then the watcher is started.
IxSave2 ==
  /\ ix.pc = "save2"
  /\ disk' = toPersist([ix.st EXCEPT !.pathKey = ix.pathKey,
                                     !.pathKeyHash = sha256Hex(ix.pathKey),
                                     !.codebaseId = ix.codebaseId,
                                     !.repoName = ix.repoName,
                                     !.pendingChanges = FALSE])
  /\ ix' = [ix EXCEPT !.pc = "done", !.saves = @ + 1]
  /\ wt' = IF wt.pc = "off" THEN [wt EXCEPT !.pc = "idle"] ELSE wt
  /\ UNCHANGED <<semVars, runtimeCodebaseIds, tree, syncVars, fsVars, px, auxVars>>

\* ------------------------------------------------------------- fileWatcher
\* markChanged: loadWorkspaceState; an incomplete state is skipped.
WtLoad ==
  /\ wt.pc = "idle"
  /\ LET st == loadWorkspaceState(disk) IN
     /\ st.codebaseId # None /\ st.pathKey # None
     /\ wt' = [pc |-> "loaded", st |-> st]
  /\ UNCHANGED <<semVars, disk, runtimeCodebaseIds, tree, ix, syncVars, fsVars, px, auxVars>>

\* markChanged: st.pendingChanges = true; saveWorkspaceState(st).
WtSave ==
  /\ wt.pc = "loaded"
  /\ disk' = toPersist([wt.st EXCEPT !.pendingChanges = TRUE])
  /\ wt' = [pc |-> "idle", st |-> NoState]
  /\ UNCHANGED <<semVars, runtimeCodebaseIds, tree, ix, syncVars, fsVars, px, auxVars>>

\* markChanged: the save threw; the error is logged and dropped.
WtSaveFail ==
  /\ wt.pc = "loaded"
  /\ wt' = [pc |-> "idle", st |-> NoState]
  /\ UNCHANGED <<semVars, disk, runtimeCodebaseIds, tree, ix, syncVars, fsVars, px, auxVars>>

\* ------------------------------------------------------- path encryption
\* A relative POSIX path is the sequence of its names; "." is Root.  A
\* Windows-relative path is the marker "." (for `.\`) followed by the names.
\* The regular expression /^\.\/?/ of toWindowsRelative removes a leading
\* "." whether or not a "/" follows it: StripDot is what it makes of a name.
StripDot(name) == IF name = ".rc.json" THEN "rc.json" ELSE name

toWindowsRelative(p) ==
  IF p = Root THEN <<".">> ELSE <<".", StripDot(Head(p))>> \o Tail(p)

\* /^\.\\?/ removes the `.\` marker, or else a leading "." of the first name.
toPosixRelative(w) ==
  IF w = <<>> \/ w = <<".">> THEN Root
  ELSE IF Head(w) = "." THEN Tail(w)
  ELSE <<StripDot(Head(w))>> \o Tail(w)

\* Segment-wise AES-CTR under the key: injective for one key, and with
\* another key decrypt returns other text without raising an error.
\* The "." marker and the separators are copied as they are: "." alone has
\* the same encrypted form under every key, and a decryption under another
\* key keeps the shape of the path and turns each name into other text.
Garble(w) == [i \in DOMAIN w |-> IF w[i] = "." THEN "." ELSE "?"]
encryptPathSegments(w, k) == [key |-> IF w = <<".">> THEN None ELSE k, segs |-> w]
decryptPathSegments(e, k) == IF e.key = k \/ e.key = None THEN e.segs ELSE Garble(e.segs)

encryptPathWindows(k, p) == encryptPathSegments(toWindowsRelative(p), k)
decryptPathToRelPosix(k, e) == toPosixRelative(decryptPathSegments(e, k))

\* V1MasterKeyedEncryptionScheme.decrypt of a segment made by encrypt: the
\* cipher is AES-256-CTR and nothing checks the 6-byte prefix, so no key
\* makes createDecipheriv, update or final raise an error.
DecryptThrows(e, k) == FALSE

\* Names of path segments and the paths made of them
SegmentNames == {"a.ts", "src", ".rc.json", "lib"}
RECURSIVE PathsOfDepth(_)
PathsOfDepth(d) ==
  IF d = 0 THEN {Root}
  ELSE {Append(q, nm) : q \in PathsOfDepth(d - 1), nm \in SegmentNames}
PathInputs == UNION {PathsOfDepth(d) : d \in 0..MaxDepth}

\* uploadFilesChunk / incrementalSync: encryptPathWindows(scheme, relPosix)
PxEncrypt ==
  /\ px.pc = "plain"
  /\ px' = [px EXCEPT !.pc = "encrypted", !.enc = encryptPathWindows(px.key, px.path)]
  /\ UNCHANGED <<semVars, engVars, syncVars, fsVars, auxVars>>

\* search / processNode: decryptPathToRelPosix(scheme, encPath) inside try
PxDecrypt ==
  /\ px.pc = "encrypted"
  /\ px' = IF DecryptThrows(px.enc, px.dkey)
             THEN [px EXCEPT !.pc = "decrypted", !.thrown = TRUE]
             ELSE [px EXCEPT !.pc = "decrypted",
                             !.dec = decryptPathToRelPosix(px.dkey, px.enc)]
  /\ UNCHANGED <<semVars, engVars, syncVars, fsVars, auxVars>>

\* --------------------------------------------------------- incrementalSync
IsPrefix(p, q) == Len(p) <= Len(q) /\ SubSeq(q, 1, Len(p)) = p
Dirs == {Root} \cup UNION {{SubSeq(f, 1, k) : k \in 0..(Len(f) - 1)} : f \in tree}
Nodes == tree \cup Dirs

\* listDirectChildren(relPosix): the entries of the directory
listDirectChildren(p) == {q \in Nodes : Len(q) = Len(p) + 1 /\ IsPrefix(p, q)}

\* Array order of a set of paths (directory listing order)
NodeOrder == << <<"a.ts">>, <<"src">>, <<".rc.json">>, <<"src", "b.ts">>,
                <<"src", "lib">>, <<"src", "lib", "c.ts">> >>
OrderPaths(S) == SelectSeq(NodeOrder, LAMBDA q : q \in S)

RECURSIVE Repeat(_, _)
Repeat(q, k) == IF k = 0 THEN <<>> ELSE q \o Repeat(q, k - 1)

IdleDf == [pc |-> "off", queue |-> <<>>, visited |-> {}, r |-> {}, n |-> {},
           s |-> {}, iterations |-> 0, queried |-> {}, failed |-> {},
           honest |-> TRUE]

\* Remote answers to syncMerkleSubtreeV2 for node p: the child hints name
\* encrypted paths, each with a hash that equals the local one or differs.
OtherKey(k) == CHOOSE x \in PathKeys : x # k
HintPaths(p, k) ==
  {encryptPathWindows(k, c) : c \in listDirectChildren(p)}
    \cup {encryptPathSegments(<<".", "zz">>, OtherKey(k))}
HintSets(p, k) ==
  {{[enc |-> e, differs |-> (f[e] = "differ")] : e \in {x \in HintPaths(p, k) : f[x] # "absent"}} :
     f \in [HintPaths(p, k) -> {"absent", "same", "differ"}]} \ {{}}

\* The remote index holds every file under the path it was uploaded with
\* (uploadFilesChunk: encryptPathWindows); a node is stale when a changed
\* file lies under it.
Stale(c) == \E f \in changedFiles : IsPrefix(c, f)
HonestHints(p, k) ==
  {[enc |-> encryptPathWindows(k, c), differs |-> Stale(c)] : c \in listDirectChildren(p)}

\* processNode, the branch with child hints
resolvedPlain(H, k) == {decryptPathToRelPosix(k, h.enc) : h \in H}
misMatched(H, k) == {decryptPathToRelPosix(k, h.enc) : h \in {x \in H : x.differs}} \cap Nodes
AfterHints(d, p, H, k, copies) ==
  LET trueFiles == listDirectChildren(p) \cap tree
      trueDirs == listDirectChildren(p) \cap Dirs
  IN [d EXCEPT !.r = @ \cup (misMatched(H, k) \cap trueFiles),
               !.queue = @ \o Repeat(OrderPaths(misMatched(H, k) \cap trueDirs), copies),
               !.n = @ \cup (trueDirs \ resolvedPlain(H, k)),
               !.s = @ \cup (trueFiles \ resolvedPlain(H, k))]

\* processNode, the branch without child hints
AfterNoHints(d, p) ==
  LET kids == listDirectChildren(p) IN
  IF kids = {}
    THEN [d EXCEPT !.s = IF p # Root THEN @ \cup {p} ELSE @]
    ELSE [d EXCEPT !.queue = @ \o OrderPaths(kids \cap Dirs), !.r = @ \cup (kids \cap tree)]

\* `running`: the node tasks that have not settled
RunningAuto == {t \in AutoTasks : task[t].pc \in {"queued", "granted", "running", "backoff"}}

\* A node task settles: finally { release() }, running.delete(task), and
\* the Promise.race of the main loop resolves.
DfFinish(t, d) ==
  /\ SemFinish(t, [task[t] EXCEPT !.pc = "resolved"])
  /\ df' = [d EXCEPT !.pc = "loop"]

\* withSemaphore after the await, then processNode up to its first await.
DfEnter(t) ==
  /\ as.pc = "diff"
  /\ task[t].pc = "granted"
  /\ ~aborted["auto"]
  /\ IF task[t].arg \in df.visited
       THEN /\ SemFinish(t, [task[t] EXCEPT !.pc = "resolved", !.calls = @ + 1])
            /\ df' = [df EXCEPT !.pc = "loop"]
       ELSE /\ task' = [task EXCEPT ![t] = [@ EXCEPT !.pc = "running", !.calls = @ + 1]]
            /\ df' = [df EXCEPT !.visited = @ \cup {task[t].arg}]
            /\ UNCHANGED <<counter, waiting>>
  /\ UNCHANGED <<max, aborted, retryCount, engVars, as, changedFiles, syncMaxIterations, fsVars, px, auxVars>>

\* merkle.getSubtreeHash throws: return without a query.
DfNoQuery(t) ==
  /\ as.pc = "diff"
  /\ task[t].pc = "running"
  /\ DfFinish(t, [df EXCEPT !.honest = FALSE])
  /\ UNCHANGED <<max, aborted, retryCount, engVars, as, changedFiles, syncMaxIterations, fsVars, px, auxVars>>

\* syncMerkleSubtreeV2 throws: caught, return.
DfAnswerThrow(t) ==
  /\ as.pc = "diff"
  /\ task[t].pc = "running"
  /\ DfFinish(t, [df EXCEPT !.honest = FALSE, !.queried = @ \cup {task[t].arg},
                             !.failed = @ \cup {task[t].arg}])
  /\ UNCHANGED <<max, aborted, retryCount, engVars, as, changedFiles, syncMaxIterations, fsVars, px, auxVars>>

\* The remote answers match: return.
DfAnswerMatch(t) ==
  /\ as.pc = "diff"
  /\ task[t].pc = "running"
  /\ DfFinish(t, [df EXCEPT !.honest = @ /\ ~Stale(task[t].arg), !.queried = @ \cup {task[t].arg}])
  /\ UNCHANGED <<max, aborted, retryCount, engVars, as, changedFiles, syncMaxIterations, fsVars, px, auxVars>>

\* The remote answers mismatch with child hints H.
DfAnswerMismatch(t) ==
  /\ as.pc = "diff"
  /\ task[t].pc = "running"
  /\ LET p == task[t].arg
         k == as.st.pathKey
     IN \E H \in HintSets(p, k), copies \in 1..MaxCopies :
          DfFinish(t, [AfterHints(df, p, H, k, copies) EXCEPT
                         !.honest = @ /\ Stale(p) /\ H = HonestHints(p, k) /\ copies = 1,
                         !.queried = @ \cup {p}])
  /\ UNCHANGED <<max, aborted, retryCount, engVars, as, changedFiles, syncMaxIterations, fsVars, px, auxVars>>

\* The remote answers mismatch without child hints.
DfAnswerNoHints(t) ==
  /\ as.pc = "diff"
  /\ task[t].pc = "running"
  /\ DfFinish(t, [AfterNoHints(df, task[t].arg) EXCEPT !.honest = FALSE, !.queried = @ \cup {task[t].arg}])
  /\ UNCHANGED <<max, aborted, retryCount, engVars, as, changedFiles, syncMaxIterations, fsVars, px, auxVars>>

\* The inner while loop: shift paths off the queue while iterations allow,
\* drop the visited ones, count and start a task for each of the others.
RECURSIVE Take(_, _, _)
Take(q, room, vis) ==
  IF q = <<>> \/ room <= 0 THEN [spawn |-> <<>>, rest |-> q]
  ELSE IF Head(q) \in vis THEN Take(Tail(q), room, vis)
  ELSE LET x == Take(Tail(q), room - 1, vis)
       IN [spawn |-> <<Head(q)>> \o x.spawn, rest |-> x.rest]

\* sem.withRetrySemaphore for each path of args, in order, on the live
\* semaphore s; the calls take the slots base+1, base+2, ...
SpawnMore(s, base, args) ==
  LET k == Len(args)
      free == max[s] - counter[s]
      g == IF k < free THEN k ELSE free
  IN /\ counter' = [counter EXCEPT ![s] = @ + g]
     /\ waiting' = [waiting EXCEPT ![s] = @ \o [j \in 1..(k - g) |-> <<s, base + g + j>>]]
     /\ task' = [t \in Tasks |->
                   IF SemOf(t) = s /\ t[2] > base /\ t[2] <= base + k
                     THEN [IdleTask EXCEPT !.pc = IF t[2] - base <= g THEN "granted" ELSE "queued",
                                           !.kind = "retry", !.maxRetries = retryCount, !.i = 1,
                                           !.final = ~LoopContinues(1, retryCount),
                                           !.arg = args[t[2] - base]]
                     ELSE task[t]]

\* `(queue.length > 0 && iterations < SYNC_MAX_ITERATIONS) || running.size > 0`
LoopCondEarly(d) == d.queue # <<>> /\ d.iterations < syncMaxIterations
LoopCond(d) == (d.queue # <<>> /\ d.iterations < syncMaxIterations) \/ RunningAuto # {}
RoomNoCap(d) == Len(d.queue)
Room(d) == syncMaxIterations - d.iterations

\* One pass of the outer loop, up to `await Promise.race(running)`.
DfLoop ==
  /\ as.pc = "diff"
  /\ df.pc = "loop"
  /\ LoopCond(df)
  /\ LET tk == Take(df.queue, Room(df), df.visited)
         k == Len(tk.spawn)
     IN /\ SpawnMore("auto", df.iterations, tk.spawn)
        /\ df' = [df EXCEPT !.queue = tk.rest, !.iterations = @ + k,
                            !.pc = IF k > 0 \/ RunningAuto # {} THEN "awaiting" ELSE "loop"]
  /\ UNCHANGED <<max, aborted, retryCount, engVars, as, changedFiles, syncMaxIterations, fsVars, px, auxVars>>

\* ------------------------------------------------------- autoSyncIfNeeded
\* hs: the codebaseId a handshake of this run returned (the function calls
\* neither initialHandshake nor validateCodebasePathKey)
IdleAs == [pc |-> "idle", outcome |-> "none", loaded |-> NoState, st |-> NoState,
           hs |-> None, runtimeId |-> None, changed |-> {}, uploaded |-> {},
           upTo |-> {}, ensures |-> 0, syncs |-> 0, writes |-> 0]

\* `if (!st.pendingChanges) return;`
SkipsWhenCleanNot(st) == FALSE
SkipsWhenClean(st) == ~st.pendingChanges

\* From the load to the first await after the checks.
AsStart ==
  /\ as.pc = "idle"
  /\ LET st == loadWorkspaceState(disk)
         runtimeId == IF runtimeCodebaseIds # None THEN runtimeCodebaseIds ELSE st.codebaseId
         rec == [IdleAs EXCEPT !.loaded = st, !.st = st, !.runtimeId = runtimeId]
     IN IF runtimeId = None \/ st.pathKey = None \/ ~st.seed
          THEN /\ as' = [rec EXCEPT !.outcome = "noIdentity"]
               /\ UNCHANGED <<runtimeCodebaseIds, df, counter, waiting, task>>
          ELSE /\ runtimeCodebaseIds' = runtimeId
               /\ IF SkipsWhenClean(st)
                    THEN /\ as' = [rec EXCEPT !.outcome = "noPending"]
                         /\ UNCHANGED <<df, counter, waiting, task>>
                    ELSE /\ as' = [rec EXCEPT !.pc = "diff", !.outcome = "running"]
                         /\ df' = [IdleDf EXCEPT !.pc = "loop", !.queue = <<Root>>]
                         /\ counter' = [counter EXCEPT !["auto"] = 0]
                         /\ waiting' = [waiting EXCEPT !["auto"] = <<>>]
                         /\ task' = [t \in Tasks |-> IF SemOf(t) = "auto" THEN IdleTask ELSE task[t]]
  /\ UNCHANGED <<max, aborted, retryCount, disk, tree, ix, wt, changedFiles, syncMaxIterations, fsVars, px, auxVars>>

\* incrementalSync returns `changed`; autoSyncIfNeeded returns when it is
\* empty and else starts uploadFilesChunk on the changed paths.
Changed(d) == d.r \cup d.s
DfReturn ==
  /\ as.pc = "diff"
  /\ df.pc = "loop"
  /\ ~LoopCond(df)
  /\ df' = IdleDf
  /\ IF Changed(df) = {}
       THEN /\ as' = [as EXCEPT !.pc = "idle", !.outcome = "noChanges"]
            /\ UNCHANGED <<counter, waiting, task>>
       ELSE /\ as' = [as EXCEPT !.pc = "uploading", !.changed = Changed(df)]
            /\ SpawnTasks("auto", OrderPaths(Changed(df)))
  /\ UNCHANGED <<max, aborted, retryCount, engVars, changedFiles, syncMaxIterations, fsVars, px, auxVars>>

AsEnter(t) == as.pc = "uploading" /\ Enter(t)
AsBackoffDone(t) == as.pc = "uploading" /\ BackoffDone(t)
AsUploadSkip(t) == as.pc = "uploading" /\ UploadSkip(t)

\* Upload body: fastUpdateFileV2 was called and answered.
AsUploadOk(t) ==
  /\ as.pc = "uploading"
  /\ task[t].pc = "running"
  /\ SemFinish(t, [task[t] EXCEPT !.pc = "resolved"])
  /\ as' = [as EXCEPT !.uploaded = @ \cup {task[t].arg}, !.upTo = @ \cup {as.runtimeId}]
  /\ changedFiles' = changedFiles \ {task[t].arg}
  /\ UNCHANGED <<max, aborted, retryCount, engVars, df, syncMaxIterations, fsVars, px, auxVars>>

\* Upload body: fastUpdateFileV2 was called and threw.
AsUploadThrow(t) ==
  /\ as.pc = "uploading"
  /\ task[t].pc = "running"
  /\ SemFinish(t, AfterFailure(task[t], task[t].calls))
  /\ as' = [as EXCEPT !.uploaded = @ \cup {task[t].arg}, !.upTo = @ \cup {as.runtimeId}]
  /\ UNCHANGED <<max, aborted, retryCount, engVars, df, changedFiles, syncMaxIterations, fsVars, px, auxVars>>

\* uploadFilesChunk returns (every rejection was caught).
AsBatchDone ==
  /\ as.pc = "uploading"
  /\ Settled("auto")
  /\ as' = [as EXCEPT !.pc = "ensure"]
  /\ UNCHANGED <<semVars, engVars, df, changedFiles, syncMaxIterations, fsVars, px, auxVars>>

\* runEnsureAndSyncComplete: ensureIndexCreated answered
AsEnsure ==
  /\ as.pc = "ensure"
  /\ as' = [as EXCEPT !.pc = "syncComplete", !.ensures = 1]
  /\ UNCHANGED <<semVars, engVars, df, changedFiles, syncMaxIterations, fsVars, px, auxVars>>

\* runEnsureAndSyncComplete: fastRepoSyncComplete answered
AsSyncComplete ==
  /\ as.pc = "syncComplete"
  /\ as' = [as EXCEPT !.pc = "save", !.syncs = 1]
  /\ UNCHANGED <<semVars, engVars, df, changedFiles, syncMaxIterations, fsVars, px, auxVars>>

\* ensureIndexCreated or fastRepoSyncComplete throws: the run ends there.
AsRemoteThrow ==
  /\ as.pc \in {"ensure", "syncComplete"}
  /\ as' = [as EXCEPT !.pc = "idle", !.outcome = "failed",
                      !.ensures = IF as.pc = "ensure" THEN 1 ELSE @,
                      !.syncs = IF as.pc = "syncComplete" THEN 1 ELSE @]
  /\ UNCHANGED <<semVars, engVars, df, changedFiles, syncMaxIterations, fsVars, px, auxVars>>

\* `st.pendingChanges = false; await saveWorkspaceState(st)`
AsSave ==
  /\ as.pc = "save"
  /\ disk' = toPersist([as.st EXCEPT !.pendingChanges = FALSE])
  /\ as' = [as EXCEPT !.pc = "idle", !.outcome = "synced", !.writes = 1,
                      !.st = [@ EXCEPT !.pendingChanges = FALSE]]
  /\ UNCHANGED <<semVars, runtimeCodebaseIds, tree, ix, wt, df, changedFiles, syncMaxIterations, fsVars, px, auxVars>>

\* saveWorkspaceState throws: state.json keeps its content.
AsSaveFail ==
  /\ as.pc = "save"
  /\ as' = [as EXCEPT !.pc = "idle", !.outcome = "failed"]
  /\ UNCHANGED <<semVars, engVars, df, changedFiles, syncMaxIterations, fsVars, px, auxVars>>

\* ------------------------------------------------------------ stateManager
\* loadWorkspaceState / saveWorkspaceState at the level of their file steps.
Roots == {"/w1", "/w2"}
StateCallers == 1..NStateCallers
\* the workspace each caller works on: the first two share a root
RootsOf(c) == IF c <= 2 THEN {"/w1"} ELSE {"/w2"}

\* What a file holds: nothing ("absent"), text that does not parse
\* ("corrupt"), the beginning of a JSON text ("partial"), or a JSON value
\* ("json") with the fields read from it; workspacePath None is a value
\* without a usable workspacePath (null, {}, "").
FileContent(kind, wp, cid, pend) ==
  [kind |-> kind, workspacePath |-> wp, codebaseId |-> cid, pendingChanges |-> pend]
AbsentFile == FileContent("absent", None, None, "undef")
CorruptFile == FileContent("corrupt", None, None, "undef")
PartialFile == FileContent("partial", None, None, "undef")

\* `return { workspacePath }`
MinimalState(root) == [workspacePath |-> root, codebaseId |-> None, pendingChanges |-> "undef"]

\* loadWorkspaceState: readJSON threw, or `!st || !st.workspacePath`
IsUsableAnyJson(content) == content.kind = "json"
IsUsable(content) == content.kind = "json" /\ content.workspacePath # None

\* loadWorkspaceState: the value returned for what state.json holds
loadResult(content, root) ==
  IF IsUsable(content)
    THEN [workspacePath |-> content.workspacePath, codebaseId |-> content.codebaseId,
          pendingChanges |-> content.pendingChanges]
    ELSE MinimalState(root)

\* saveWorkspaceState: toPersist as written by writeJSON
\* (`pendingChanges: st.pendingChanges ?? false`)
toPersistFile(st) ==
  FileContent("json", st.workspacePath, st.codebaseId,
              IF st.pendingChanges = "undef" THEN "false" ELSE st.pendingChanges)

\* States a caller passes to saveWorkspaceState for a root
SaveInputs(root) ==
  {[workspacePath |-> root, codebaseId |-> "Y", pendingChanges |-> "undef"]}

\* Records state.json of a root may hold when the process starts
FileInits(root) ==
  {AbsentFile, CorruptFile, FileContent("json", None, "X", "true"),
   FileContent("json", root, "X", "true")}

\* getWorkspaceMutex: one Mutex per workspacePath
getWorkspaceMutexShared(workspacePath) == "/w1"
getWorkspaceMutex(workspacePath) == workspacePath

\* saveWorkspaceState: the file writeJSON writes to (`file + ".tmp"`)
WriteTargetDirect == "file"
WriteTarget == "tmp"

IdleOp == [pc |-> "idle", kind |-> "none", root |-> "/w1", st |-> MinimalState("/w1"),
           before |-> AbsentFile, result |-> "none", ret |-> MinimalState("/w1"),
           err |-> "none"]
FreeMutex == [locked |-> FALSE, queue |-> <<>>]

\* The first step of the callback given to runExclusive
FirstPc(kind) == IF kind = "load" THEN "reading" ELSE "removeTmp"

\* A readCodeFromFile call about to read its window
IdleCs == [pc |-> "call", readable |-> TRUE, file |-> <<>>, startLine |-> 1,
           endLine |-> 1, lines |-> <<>>, preview |-> <<>>]

\* The workspaces create_index is called for, as path.resolve names them:
\* an absolute path is the sequence of its names
ServerPaths == {<<"w1">>, <<"w2">>}
\* indexingTasks is empty, no run is in flight, nothing has been answered
IdleSrv == [indexingTasks |-> [w \in ServerPaths |-> "none"],
            inFlight |-> [w \in ServerPaths |-> 0],
            calls |-> 0,
            reply |-> [path |-> <<>>, status |-> "none", started |-> FALSE]]

\* startFileWatcher has returned: nothing pending, no timer, not closed.
\* delivered, unmarked and marks record the events and markChanged calls.
IdleFw == [pending |-> {}, timer |-> [armed |-> FALSE, due |-> 0], flushing |-> 0,
           closed |-> FALSE, now |-> 0, delivered |-> 0, unmarked |-> {}, marks |-> 0]

\* No search, no create_index call and no watcher yet
AuxOff ==
  /\ cs = [IdleCs EXCEPT !.pc = "off"]
  /\ srv = IdleSrv
  /\ fw = IdleFw

\* The process starts: no call in progress, no Mutex, no temp file
FsOff ==
  /\ stateFile = [r \in Roots |-> AbsentFile]
  /\ tmpFile = [r \in Roots |-> AbsentFile]
  /\ workspaceMutexes = [r \in Roots |-> FreeMutex]
  /\ op = [c \in StateCallers |-> IdleOp]
  /\ px = [pc |-> "off", path |-> <<>>, key |-> "K1", dkey |-> "K1",
           enc |-> [key |-> "K1", segs |-> <<>>], dec |-> <<>>, thrown |-> FALSE]
  /\ AuxOff

\* lock.runExclusive: acquire, at once or behind the earlier waiters
MxAcquire(c, rec) ==
  LET m == getWorkspaceMutex(rec.root) IN
  IF workspaceMutexes[m].locked
    THEN /\ workspaceMutexes' = [workspaceMutexes EXCEPT ![m].queue = Append(@, c)]
         /\ op' = [op EXCEPT ![c] = [rec EXCEPT !.pc = "waiting"]]
    ELSE /\ workspaceMutexes' = [workspaceMutexes EXCEPT ![m].locked = TRUE]
         /\ op' = [op EXCEPT ![c] = [rec EXCEPT !.pc = FirstPc(rec.kind),
                                                 !.before = stateFile[rec.root]]]

\* lock.runExclusive: the callback of call c settled (leaving c as rec, the
\* files as newFile); the Mutex goes to the first waiter or becomes free.
MxRelease(c, rec, newFile) ==
  LET m == getWorkspaceMutex(rec.root)
      q == workspaceMutexes[m].queue
  IN IF q = <<>>
       THEN /\ workspaceMutexes' = [workspaceMutexes EXCEPT ![m].locked = FALSE]
            /\ op' = [op EXCEPT ![c] = rec]
       ELSE /\ workspaceMutexes' = [workspaceMutexes EXCEPT ![m].queue = Tail(q)]
            /\ op' = [op EXCEPT ![c] = rec,
                                 ![Head(q)] = [@ EXCEPT !.pc = FirstPc(op[Head(q)].kind),
                                                        !.before = newFile[op[Head(q)].root]]]

\* loadWorkspaceState(root) / saveWorkspaceState(st): ensureDir, then
\* lock.runExclusive.
StCall(c, kind, root, st) ==
  /\ op[c].pc = "idle"
  /\ MxAcquire(c, [IdleOp EXCEPT !.kind = kind, !.root = root, !.st = st])
  /\ UNCHANGED <<semVars, engVars, syncVars, stateFile, tmpFile, px, auxVars>>

\* `await fs.ensureDir(...)` throws: the call rejects before it takes the lock.
StCallDirFail(c, kind, root, st) ==
  /\ op[c].pc = "idle"
  /\ op' = [op EXCEPT ![c] = [IdleOp EXCEPT !.kind = kind, !.root = root, !.st = st,
                                             !.pc = "done", !.result = "thrown",
                                             !.err = "ensureDir"]]
  /\ UNCHANGED <<semVars, engVars, syncVars, stateFile, tmpFile, workspaceMutexes, px, auxVars>>

\* loadWorkspaceState inside the lock: readJSON, the checks, return.
LdRead(c) ==
  /\ op[c].pc = "reading"
  /\ MxRelease(c, [op[c] EXCEPT !.pc = "done", !.result = "ok",
                                !.before = stateFile[op[c].root],
                                !.ret = loadResult(stateFile[op[c].root], op[c].root)],
               stateFile)
  /\ UNCHANGED <<semVars, engVars, syncVars, stateFile, tmpFile, px, auxVars>>

\* saveWorkspaceState: `try { await fs.remove(tmp); } catch {}`
SvRemoveTmp(c, removed) ==
  /\ op[c].pc = "removeTmp"
  /\ tmpFile' = IF removed THEN [tmpFile EXCEPT ![op[c].root] = AbsentFile] ELSE tmpFile
  /\ op' = [op EXCEPT ![c].pc = "write"]
  /\ UNCHANGED <<semVars, engVars, syncVars, stateFile, workspaceMutexes, px, auxVars>>

\* writeJSON opened its file and has written part of the text.
SvWriteBegin(c) ==
  /\ op[c].pc = "write"
  /\ IF WriteTarget = "tmp"
       THEN /\ tmpFile' = [tmpFile EXCEPT ![op[c].root] = PartialFile]
            /\ UNCHANGED stateFile
       ELSE /\ stateFile' = [stateFile EXCEPT ![op[c].root] = PartialFile]
            /\ UNCHANGED tmpFile
  /\ op' = [op EXCEPT ![c].pc = "writing"]
  /\ UNCHANGED <<semVars, engVars, syncVars, workspaceMutexes, px, auxVars>>

\* writeJSON wrote the whole text.
SvWriteEnd(c) ==
  /\ op[c].pc = "writing"
  /\ IF WriteTarget = "tmp"
       THEN /\ tmpFile' = [tmpFile EXCEPT ![op[c].root] = toPersistFile(op[c].st)]
            /\ UNCHANGED stateFile
       ELSE /\ stateFile' = [stateFile EXCEPT ![op[c].root] = toPersistFile(op[c].st)]
            /\ UNCHANGED tmpFile
  /\ op' = [op EXCEPT ![c].pc = "move"]
  /\ UNCHANGED <<semVars, engVars, syncVars, workspaceMutexes, px, auxVars>>

\* writeJSON throws, before or after it wrote a part: to the catch block.
SvWriteFail(c) ==
  /\ op[c].pc \in {"write", "writing"}
  /\ op' = [op EXCEPT ![c].pc = "cleanup", ![c].err = "write"]
  /\ UNCHANGED <<semVars, engVars, syncVars, stateFile, tmpFile, workspaceMutexes, px, auxVars>>

\* fs.move(tmp, file, { overwrite: true }) renamed the temp file; the
\* callback returns and the lock is released.
SvMove(c) ==
  /\ op[c].pc = "move"
  /\ LET r == op[c].root
         newFile == IF WriteTarget = "tmp"
                      THEN [stateFile EXCEPT ![r] = tmpFile[r]] ELSE stateFile
     IN /\ stateFile' = newFile
        /\ tmpFile' = [tmpFile EXCEPT ![r] = AbsentFile]
        /\ MxRelease(c, [op[c] EXCEPT !.pc = "done", !.result = "ok", !.before = AbsentFile], newFile)
  /\ UNCHANGED <<semVars, engVars, syncVars, px, auxVars>>

\* fs.move throws: state.json is as it was; to the catch block.
SvMoveFail(c) ==
  /\ op[c].pc = "move"
  /\ op' = [op EXCEPT ![c].pc = "cleanup", ![c].err = "rename"]
  /\ UNCHANGED <<semVars, engVars, syncVars, stateFile, tmpFile, workspaceMutexes, px, auxVars>>

\* catch: log, `try { await fs.remove(tmp); } catch {}`, `throw err`.
SvCleanup(c, removed) ==
  /\ op[c].pc = "cleanup"
  /\ tmpFile' = IF removed THEN [tmpFile EXCEPT ![op[c].root] = AbsentFile] ELSE tmpFile
  /\ MxRelease(c, [op[c] EXCEPT !.pc = "done", !.result = "thrown", !.before = AbsentFile], stateFile)
  /\ UNCHANGED <<semVars, engVars, syncVars, stateFile, px, auxVars>>

\* The process dies and is started again: the calls and the Mutexes are
\* gone, the files are as the last completed file operation left them.
Crash ==
  /\ \E c \in StateCallers : op[c].pc \notin {"idle", "done"}
  /\ op' = [c \in StateCallers |-> IdleOp]
  /\ workspaceMutexes' = [r \in Roots |-> FreeMutex]
  /\ UNCHANGED <<semVars, engVars, syncVars, stateFile, tmpFile, px, auxVars>>

\* ------------------------------------------------------------ codeSearcher
\* A line is the sequence of its characters, a string likewise; line i of a
\* file holds the one character i, or nothing when it is the blank line.
NewLine == "\n"
OmittedMarker == <<"<Omitted>...</Omitted>">>
LineChars == <<"1", "2", "3", "4", "5", "6", "7", "8", "9", "10">>
FileOf(len, blank) == [i \in 1..len |-> IF i = blank THEN <<>> ELSE <<LineChars[i]>>]
ReadInputs == {FileOf(len, blank) : len \in 0..MaxLines, blank \in 0..MaxLines}
LineNumbers == (0 - 1)..(MaxLines + 1)

\* Math.max
MathMax(a, b) == IF a >= b THEN a ELSE b

\* The `break` of the read loop: the line lies after the window
PastWindowEarly(currentLine, normalizedEnd) == currentLine >= normalizedEnd
PastWindow(currentLine, normalizedEnd) == currentLine > normalizedEnd

\* The `for await (const line of rl)` loop, from the line after currentLine
RECURSIVE ReadLoop(_, _, _, _, _)
ReadLoop(lines, currentLine, normalizedStart, normalizedEnd, collected) ==
  IF currentLine = Len(lines) THEN collected
  ELSE LET c == currentLine + 1 IN
       IF c < normalizedStart
         THEN ReadLoop(lines, c, normalizedStart, normalizedEnd, collected)
       ELSE IF PastWindow(c, normalizedEnd) THEN collected
       ELSE ReadLoop(lines, c, normalizedStart, normalizedEnd,
                     Append(collected, lines[c]))

\* readFileWindow: the collected lines, or none when opening or reading throws
readFileWindow(readable, lines, startLine, endLine) ==
  LET normalizedStart == MathMax(1, startLine)
      normalizedEnd == MathMax(normalizedStart, endLine)
  IN IF readable THEN ReadLoop(lines, 0, normalizedStart, normalizedEnd, <<>>)
     ELSE <<>>

\* Array.prototype.join("\n")
RECURSIVE JoinLines(_)
JoinLines(ls) ==
  IF ls = <<>> THEN <<>>
  ELSE IF Len(ls) = 1 THEN ls[1]
  ELSE ls[1] \o <<NewLine>> \o JoinLines(Tail(ls))

\* codeLines.slice(0, 4) and codeLines.slice(-2)
SliceHead(ls, k) == SubSeq(ls, 1, IF Len(ls) < k THEN Len(ls) ELSE k)
SliceTail(ls, k) == SubSeq(ls, IF Len(ls) < k THEN 1 ELSE Len(ls) - k + 1, Len(ls))

\* The window is short enough to be returned whole
ShownWholeShort(codeLines) == Len(codeLines) <= 4
ShownWhole(codeLines) == Len(codeLines) <= 6

\* readCodeFromFile after the window has been read
codePreview(codeLines) ==
  IF Len(codeLines) = 0 THEN <<>>
  ELSE IF ShownWhole(codeLines) THEN JoinLines(codeLines)
  ELSE JoinLines(SliceHead(codeLines, 4) \o <<OmittedMarker>> \o SliceTail(codeLines, 2))

\* readCodeFromFile awaits readFileWindow
CsReadWindow ==
  /\ cs.pc = "call"
  /\ cs' = [cs EXCEPT !.pc = "window",
                      !.lines = readFileWindow(cs.readable, cs.file, cs.startLine, cs.endLine)]
  /\ UNCHANGED <<semVars, engVars, syncVars, fsVars, px, srv, fw>>

\* readCodeFromFile builds the preview of the window
CsPreview ==
  /\ cs.pc = "window"
  /\ cs' = [cs EXCEPT !.pc = "preview", !.preview = codePreview(cs.lines)]
  /\ UNCHANGED <<semVars, engVars, syncVars, fsVars, px, srv, fw>>

\* ------------------------------------------------------------------ server
\* workspace_path arguments: plain, with a trailing slash, through "..",
\* and with a "." segment
RawPaths == {<<"w1">>, <<"w1", "">>, <<"w2", "..", "w1">>, <<"w2">>, <<".", "w2">>}

\* path.resolve of an absolute path: empty and "." segments are dropped and
\* ".." removes the name before it
RECURSIVE ResolveInto(_, _)
ResolveInto(acc, raw) ==
  IF raw = <<>> THEN acc
  ELSE IF Head(raw) \in {"", "."} THEN ResolveInto(acc, Tail(raw))
  ELSE IF Head(raw) = ".."
    THEN ResolveInto(IF acc = <<>> THEN acc ELSE SubSeq(acc, 1, Len(acc) - 1), Tail(raw))
  ELSE ResolveInto(Append(acc, Head(raw)), Tail(raw))
pathResolve(raw) == ResolveInto(<<>>, raw)

\* `existingTask && (status === 'indexing' || status === 'pending')`
AlreadyIndexingPendingOnly(status) == status = "pending"
AlreadyIndexing(status) == status \in {"indexing", "pending"}

\* The create_index handler, up to its return: the refusal, or the task
\* set to pending and the background function run up to its await of
\* indexProject, which has set the task to indexing.
SrvCreateIndex(raw) ==
  LET normalizedPath == pathResolve(raw)
      existing == srv.indexingTasks[normalizedPath]
  IN /\ srv.calls < MaxCalls
     /\ normalizedPath \in ServerPaths
     /\ srv' = IF AlreadyIndexing(existing)
                 THEN [srv EXCEPT !.calls = @ + 1,
                                  !.reply = [path |-> normalizedPath, status |-> existing,
                                             started |-> FALSE]]
                 ELSE [srv EXCEPT !.calls = @ + 1,
                                  !.indexingTasks[normalizedPath] = "indexing",
                                  !.inFlight[normalizedPath] = @ + 1,
                                  !.reply = [path |-> normalizedPath, status |-> "pending",
                                             started |-> TRUE]]
     /\ UNCHANGED <<semVars, engVars, syncVars, fsVars, px, cs, fw>>

\* indexProject returned: the task is completed
SrvIndexDone(w) ==
  /\ srv.inFlight[w] > 0
  /\ srv' = [srv EXCEPT !.inFlight[w] = @ - 1, !.indexingTasks[w] = "completed"]
  /\ UNCHANGED <<semVars, engVars, syncVars, fsVars, px, cs, fw>>

\* indexProject threw: the task is failed
SrvIndexFail(w) ==
  /\ srv.inFlight[w] > 0
  /\ srv' = [srv EXCEPT !.inFlight[w] = @ - 1, !.indexingTasks[w] = "failed"]
  /\ UNCHANGED <<semVars, engVars, syncVars, fsVars, px, cs, fw>>

\* ------------------------------------------------------ fileWatcher debounce
WatchedPaths == {"a.ts", "b.ts"}

\* schedule: `if (timer) return; timer = setTimeout(..., debounceMs)`
ArmTimerAgain(timer, now) == [armed |-> TRUE, due |-> now + DebounceTicks]
ArmTimer(timer, now) ==
  IF timer.armed THEN timer ELSE [armed |-> TRUE, due |-> now + DebounceTicks]

\* onFsEvent and schedule: chokidar delivers an event for filePath
FwEvent(filePath) ==
  /\ ~fw.closed
  /\ fw.delivered < MaxEvents
  /\ fw' = [fw EXCEPT !.pending = @ \cup {filePath},
                      !.timer = ArmTimer(fw.timer, fw.now),
                      !.delivered = @ + 1,
                      !.unmarked = @ \cup {[id |-> fw.delivered + 1, at |-> fw.now]}]
  /\ UNCHANGED <<semVars, engVars, syncVars, fsVars, px, cs, srv>>

\* The timer callback up to the first await of markChanged:
\* `timer = null`, then flush clears pending and calls markChanged
FwTimer ==
  /\ fw.timer.armed /\ fw.now = fw.timer.due
  /\ fw' = IF fw.pending # {}
             THEN [fw EXCEPT !.timer = [armed |-> FALSE, due |-> 0], !.pending = {},
                             !.flushing = @ + 1, !.marks = @ + 1, !.unmarked = {}]
             ELSE [fw EXCEPT !.timer = [armed |-> FALSE, due |-> 0]]
  /\ UNCHANGED <<semVars, engVars, syncVars, fsVars, px, cs, srv>>

\* markChanged has returned (saved, skipped or failed): the flush is over
FwMarkDone ==
  /\ fw.flushing > 0
  /\ fw' = [fw EXCEPT !.flushing = @ - 1]
  /\ UNCHANGED <<semVars, engVars, syncVars, fsVars, px, cs, srv>>

\* close: the timer is cleared and the pending events are dropped
FwClose ==
  /\ ~fw.closed
  /\ fw' = [fw EXCEPT !.closed = TRUE, !.timer = [armed |-> FALSE, due |-> 0],
                      !.pending = {}]
  /\ UNCHANGED <<semVars, engVars, syncVars, fsVars, px, cs, srv>>

\* Time passes; a timer that is due fires before the clock moves on
FwTick ==
  /\ fw.now < MaxTime
  /\ ~(fw.timer.armed /\ fw.now >= fw.timer.due)
  /\ fw' = [fw EXCEPT !.now = @ + 1]
  /\ UNCHANGED <<semVars, engVars, syncVars, fsVars, px, cs, srv>>

\* ---------------------------------------------------- specification: engine
Init ==
  /\ max = [s \in Sems |-> EngineSlots]
  /\ counter = [s \in Sems |-> 0]
  /\ waiting = [s \in Sems |-> <<>>]
  /\ aborted = [s \in Sems |-> FALSE]
  /\ retryCount = EngineRetries
  /\ task = [t \in Tasks |-> IdleTask]
  /\ disk \in DiskInits
  /\ runtimeCodebaseIds = None
  /\ tree = {FileOrder[i] : i \in 1..NFiles}
  /\ ix = IdleIx
  /\ wt = [pc |-> "off", st |-> NoState]
  /\ as = IdleAs
  /\ df = IdleDf
  /\ changedFiles = {}
  /\ syncMaxIterations = MaxIterations
  /\ FsOff

Next ==
  \/ IxStart
  \/ \E c \in CodebaseIds \cup {None}, e \in BOOLEAN : IxHandshake(c, e)
  \/ \E c \in CodebaseIds \cup {None} : IxRehandshake(c)
  \/ IxRemoteThrow
  \/ IxSave1
  \/ IxSaveFail
  \/ IxStartBatch
  \/ \E t \in IndexTasks : Enter(t)
  \/ \E t \in IndexTasks : BackoffDone(t)
  \/ \E t \in IndexTasks : IxUploadSkip(t)
  \/ \E t \in IndexTasks : IxUploadOk(t)
  \/ \E t \in IndexTasks : IxUploadThrow(t)
  \/ IxBatchDone
  \/ IxEnsure
  \/ IxSyncComplete
  \/ IxSave2
  \/ WtLoad
  \/ WtSave
  \/ WtSaveFail

Spec == Init /\ [][Next]_vars

\* ------------------------------------------------- specification: auto-sync
\* Workspace trees and records an indexed workspace can have when a sync
\* starts; the runtime cache is empty or holds the id of a later handshake.
SyncTrees == {AllFiles, AllFiles \ {<<".rc.json">>}}
SyncDiskInits ==
  {NoState} \cup
  {[present |-> TRUE, codebaseId |-> "X", pathKey |-> k,
    pathKeyHash |-> IF k = None THEN None ELSE sha256Hex(k),
    repoName |-> BaseRepoName, seed |-> TRUE, pendingChanges |-> pc] :
     k \in {"K1", None}, pc \in BOOLEAN}

InitSync ==
  /\ max = [s \in Sems |-> EngineSlots]
  /\ counter = [s \in Sems |-> 0]
  /\ waiting = [s \in Sems |-> <<>>]
  /\ aborted = [s \in Sems |-> FALSE]
  /\ retryCount = EngineRetries
  /\ task = [t \in Tasks |-> IdleTask]
  /\ disk \in SyncDiskInits
  /\ runtimeCodebaseIds \in {None, "Y"}
  /\ tree \in SyncTrees
  /\ ix = IdleIx
  /\ wt = [pc |-> "off", st |-> NoState]
  /\ as = IdleAs
  /\ df = IdleDf
  /\ changedFiles \in {c \in SUBSET tree : Cardinality(c) <= MaxChanged}
  /\ syncMaxIterations = MaxIterations
  /\ FsOff

NextSync ==
  \/ AsStart
  \/ DfLoop
  \/ \E t \in AutoTasks : DfEnter(t)
  \/ \E t \in AutoTasks : DfNoQuery(t)
  \/ \E t \in AutoTasks : DfAnswerThrow(t)
  \/ \E t \in AutoTasks : DfAnswerMatch(t)
  \/ \E t \in AutoTasks : DfAnswerMismatch(t)
  \/ \E t \in AutoTasks : DfAnswerNoHints(t)
  \/ DfReturn
  \/ \E t \in AutoTasks : AsEnter(t)
  \/ \E t \in AutoTasks : AsBackoffDone(t)
  \/ \E t \in AutoTasks : AsUploadSkip(t)
  \/ \E t \in AutoTasks : AsUploadOk(t)
  \/ \E t \in AutoTasks : AsUploadThrow(t)
  \/ AsBatchDone
  \/ AsEnsure
  \/ AsSyncComplete
  \/ AsRemoteThrow
  \/ AsSave
  \/ AsSaveFail

SpecSync == InitSync /\ [][NextSync]_vars

\* The event loop runs a continuation that is ready, and every query
\* returns or fails: a step of incrementalSync that stays possible is taken.
DiffStep ==
  \/ DfLoop
  \/ DfReturn
  \/ \E t \in AutoTasks : DfEnter(t)
  \/ \E t \in AutoTasks : DfNoQuery(t)
  \/ \E t \in AutoTasks : DfAnswerThrow(t)
  \/ \E t \in AutoTasks : DfAnswerMatch(t)
  \/ \E t \in AutoTasks : DfAnswerMismatch(t)
  \/ \E t \in AutoTasks : DfAnswerNoHints(t)
SpecSyncFair == SpecSync /\ WF_vars(DiffStep)

\* Auto-sync runs in which every remote call is answered, every file is
\* read and every save succeeds; a tick or a search starts the next run,
\* and a step that is possible is taken.
NextSyncCalm ==
  \/ AsStart
  \/ DfLoop
  \/ \E t \in AutoTasks : DfEnter(t)
  \/ \E t \in AutoTasks : DfAnswerMatch(t)
  \/ \E t \in AutoTasks : DfAnswerMismatch(t)
  \/ \E t \in AutoTasks : DfAnswerNoHints(t)
  \/ DfReturn
  \/ \E t \in AutoTasks : AsEnter(t)
  \/ \E t \in AutoTasks : AsUploadOk(t)
  \/ AsBatchDone
  \/ AsEnsure
  \/ AsSyncComplete
  \/ AsSave

SpecSyncCalm == InitSync /\ [][NextSyncCalm]_vars /\ WF_vars(NextSyncCalm)

\* ------------------------------------------------- specification: Semaphore
InitSem ==
  /\ \E m \in 1..MaxSlots : max = [s \in Sems |-> IF s = "lib" THEN m ELSE 1]
  /\ counter = [s \in Sems |-> 0]
  /\ waiting = [s \in Sems |-> <<>>]
  /\ aborted = [s \in Sems |-> FALSE]
  /\ retryCount \in 0..MaxRetries
  /\ task = [t \in Tasks |-> IdleTask]
  /\ disk = NoState
  /\ runtimeCodebaseIds = None
  /\ tree = {}
  /\ ix = IdleIx
  /\ wt = [pc |-> "off", st |-> NoState]
  /\ as = IdleAs
  /\ df = IdleDf
  /\ changedFiles = {}
  /\ syncMaxIterations = MaxIterations
  /\ FsOff

NextSem ==
  \/ \E t \in LibTasks : CallWithSemaphore(t)
  \/ \E t \in LibTasks : CallWithRetry(t, retryCount)
  \/ \E t \in LibTasks : Enter(t)
  \/ \E t \in LibTasks : BodyReturn(t)
  \/ \E t \in LibTasks : BodyThrow(t)
  \/ \E t \in LibTasks : BackoffDone(t)
  \/ Abort("lib")

SpecSem == InitSem /\ [][NextSem]_vars

\* A caller that was given a slot runs on (the await of acquire resumes),
\* and every operation body settles: each slot holder releases.
HolderReleases(t) == Enter(t) \/ BodyReturn(t) \/ BodyThrow(t)
SpecSemFair == SpecSem /\ \A t \in LibTasks : WF_vars(HolderReleases(t))

\* --------------------------------------------- specification: stateManager
InitState ==
  /\ max = [s \in Sems |-> EngineSlots]
  /\ counter = [s \in Sems |-> 0]
  /\ waiting = [s \in Sems |-> <<>>]
  /\ aborted = [s \in Sems |-> FALSE]
  /\ retryCount = EngineRetries
  /\ task = [t \in Tasks |-> IdleTask]
  /\ disk = NoState
  /\ runtimeCodebaseIds = None
  /\ tree = {}
  /\ ix = IdleIx
  /\ wt = [pc |-> "off", st |-> NoState]
  /\ as = IdleAs
  /\ df = IdleDf
  /\ changedFiles = {}
  /\ syncMaxIterations = MaxIterations
  /\ \E f \in FileInits("/w1") :
       stateFile = [r \in Roots |-> IF r = "/w1" THEN f ELSE FileContent("json", r, "X", "true")]
  /\ tmpFile = [r \in Roots |-> AbsentFile]
  /\ workspaceMutexes = [r \in Roots |-> FreeMutex]
  /\ op = [c \in StateCallers |-> IdleOp]
  /\ px = [pc |-> "off", path |-> <<>>, key |-> "K1", dkey |-> "K1",
           enc |-> [key |-> "K1", segs |-> <<>>], dec |-> <<>>, thrown |-> FALSE]
  /\ AuxOff

NextState ==
  \/ \E c \in StateCallers : \E r \in RootsOf(c) : StCall(c, "load", r, MinimalState(r))
  \/ \E c \in StateCallers : \E r \in RootsOf(c) : \E st \in SaveInputs(r) : StCall(c, "save", r, st)
  \/ \E c \in StateCallers : \E r \in RootsOf(c) : StCallDirFail(c, "load", r, MinimalState(r))
  \/ \E c \in StateCallers : \E r \in RootsOf(c) : \E st \in SaveInputs(r) : StCallDirFail(c, "save", r, st)
  \/ \E c \in StateCallers : LdRead(c)
  \/ \E c \in StateCallers, removed \in BOOLEAN : SvRemoveTmp(c, removed)
  \/ \E c \in StateCallers : SvWriteBegin(c)
  \/ \E c \in StateCallers : SvWriteEnd(c)
  \/ \E c \in StateCallers : SvWriteFail(c)
  \/ \E c \in StateCallers : SvMove(c)
  \/ \E c \in StateCallers : SvMoveFail(c)
  \/ \E c \in StateCallers, removed \in BOOLEAN : SvCleanup(c, removed)
  \/ Crash

SpecState == InitState /\ [][NextState]_vars

\* ------------------------------------- specification: engine with auto-sync
\* indexProject, the watcher and autoSyncIfNeeded of one process on a
\* workspace of one file: no record, a record of an earlier index, or a
\* record whose pathKeyHash is not the hash of its pathKey.
AllDiskInits ==
  {NoState,
   [present |-> TRUE, codebaseId |-> "X", pathKey |-> "K1", pathKeyHash |-> "H1",
    repoName |-> BaseRepoName, seed |-> TRUE, pendingChanges |-> FALSE],
   [present |-> TRUE, codebaseId |-> "X", pathKey |-> "K1", pathKeyHash |-> "H2",
    repoName |-> BaseRepoName, seed |-> TRUE, pendingChanges |-> TRUE]}

InitAll ==
  /\ max = [s \in Sems |-> EngineSlots]
  /\ counter = [s \in Sems |-> 0]
  /\ waiting = [s \in Sems |-> <<>>]
  /\ aborted = [s \in Sems |-> FALSE]
  /\ retryCount = EngineRetries
  /\ task = [t \in Tasks |-> IdleTask]
  /\ disk \in AllDiskInits
  /\ runtimeCodebaseIds = None
  /\ tree = {FileOrder[1]}
  /\ ix = IdleIx
  /\ wt = [pc |-> "off", st |-> NoState]
  /\ as = IdleAs
  /\ df = IdleDf
  /\ changedFiles = {}
  /\ syncMaxIterations = MaxIterations
  /\ FsOff

NextAll == Next \/ NextSync

SpecAll == InitAll /\ [][NextAll]_vars

\* ------------------------------------------ specification: path encryption
InitPath ==
  /\ max = [s \in Sems |-> EngineSlots]
  /\ counter = [s \in Sems |-> 0]
  /\ waiting = [s \in Sems |-> <<>>]
  /\ aborted = [s \in Sems |-> FALSE]
  /\ retryCount = EngineRetries
  /\ task = [t \in Tasks |-> IdleTask]
  /\ disk = NoState
  /\ runtimeCodebaseIds = None
  /\ tree = {}
  /\ ix = IdleIx
  /\ wt = [pc |-> "off", st |-> NoState]
  /\ as = IdleAs
  /\ df = IdleDf
  /\ changedFiles = {}
  /\ syncMaxIterations = MaxIterations
  /\ stateFile = [r \in Roots |-> AbsentFile]
  /\ tmpFile = [r \in Roots |-> AbsentFile]
  /\ workspaceMutexes = [r \in Roots |-> FreeMutex]
  /\ op = [c \in StateCallers |-> IdleOp]
  /\ \E p \in PathInputs, k \in PathKeys, d \in PathKeys :
       px = [pc |-> "plain", path |-> p, key |-> k, dkey |-> d,
             enc |-> [key |-> "K1", segs |-> <<>>], dec |-> <<>>, thrown |-> FALSE]
  /\ AuxOff

NextPath == PxEncrypt \/ PxDecrypt

SpecPath == InitPath /\ [][NextPath]_vars

\* --------------------------------------------- specification: codeSearcher
InitRead ==
  /\ max = [s \in Sems |-> EngineSlots]
  /\ counter = [s \in Sems |-> 0]
  /\ waiting = [s \in Sems |-> <<>>]
  /\ aborted = [s \in Sems |-> FALSE]
  /\ retryCount = EngineRetries
  /\ task = [t \in Tasks |-> IdleTask]
  /\ disk = NoState
  /\ runtimeCodebaseIds = None
  /\ tree = {}
  /\ ix = IdleIx
  /\ wt = [pc |-> "off", st |-> NoState]
  /\ as = IdleAs
  /\ df = IdleDf
  /\ changedFiles = {}
  /\ syncMaxIterations = MaxIterations
  /\ stateFile = [r \in Roots |-> AbsentFile]
  /\ tmpFile = [r \in Roots |-> AbsentFile]
  /\ workspaceMutexes = [r \in Roots |-> FreeMutex]
  /\ op = [c \in StateCallers |-> IdleOp]
  /\ px = [pc |-> "off", path |-> <<>>, key |-> "K1", dkey |-> "K1",
           enc |-> [key |-> "K1", segs |-> <<>>], dec |-> <<>>, thrown |-> FALSE]
  /\ srv = IdleSrv
  /\ fw = IdleFw
  /\ \E f \in ReadInputs, r \in BOOLEAN, a \in LineNumbers, b \in LineNumbers :
       cs = [IdleCs EXCEPT !.file = f, !.readable = r, !.startLine = a, !.endLine = b]

NextRead == CsReadWindow \/ CsPreview

SpecRead == InitRead /\ [][NextRead]_vars

\* --------------------------------------------------- specification: server
InitServer ==
  /\ max = [s \in Sems |-> EngineSlots]
  /\ counter = [s \in Sems |-> 0]
  /\ waiting = [s \in Sems |-> <<>>]
  /\ aborted = [s \in Sems |-> FALSE]
  /\ retryCount = EngineRetries
  /\ task = [t \in Tasks |-> IdleTask]
  /\ disk = NoState
  /\ runtimeCodebaseIds = None
  /\ tree = {}
  /\ ix = IdleIx
  /\ wt = [pc |-> "off", st |-> NoState]
  /\ as = IdleAs
  /\ df = IdleDf
  /\ changedFiles = {}
  /\ syncMaxIterations = MaxIterations
  /\ FsOff

NextServer ==
  \/ \E raw \in RawPaths : SrvCreateIndex(raw)
  \/ \E w \in ServerPaths : SrvIndexDone(w)
  \/ \E w \in ServerPaths : SrvIndexFail(w)

SpecServer == InitServer /\ [][NextServer]_vars

\* -------------------------------------------------- specification: watcher
NextWatch ==
  \/ \E f \in WatchedPaths : FwEvent(f)
  \/ FwTimer
  \/ FwMarkDone
  \/ FwClose
  \/ FwTick

SpecWatch == InitServer /\ [][NextWatch]_vars

\* ------------------------------------------------------------------- claims
Running(s) == {t \in Tasks : SemOf(t) = s /\ task[t].pc = "running"}

\* C2: with max = N, never more than N operation bodies execute at once and
\* the slot counter stays within 0..N.
C2_BoundedConcurrency ==
  \A s \in Sems : /\ Cardinality(Running(s)) <= max[s]
                  /\ counter[s] <= max[s]
                  /\ counter[s] >= 0

\* C2 witness: all N slots are busy with running bodies while a caller queues.
C2_Witness ==
  /\ max["lib"] = 2
  /\ Cardinality(Running("lib")) = 2
  /\ Len(waiting["lib"]) > 0

\* C3 (as stated): a call whose every attempt failed by a thrown error was
\* invoked exactly maxRetries times and receives the last attempt's error.
C3_Original ==
  \A t \in LibTasks :
    (task[t].kind = "retry" /\ task[t].pc = "rejected" /\ task[t].err > 0)
      => (task[t].calls = task[t].maxRetries /\ task[t].err = task[t].calls)

\* C1: when the codebaseId returned by the handshake equals the loaded
\* record's codebaseId and the record's pathKeyHash differs from the hash of
\* the pathKey in use, the run is aborted with the mismatch error and has
\* made no record write and no UploadFile call.
MismatchAt(rec) ==
  /\ rec.codebaseId # None
  /\ rec.codebaseId = rec.loaded.codebaseId
  /\ rec.loaded.pathKeyHash # None
  /\ rec.loaded.pathKeyHash # sha256Hex(rec.pathKey)
C1_MismatchAborts ==
  MismatchAt(ix) =>
    /\ ix.pc = "failed" /\ ix.err = "pathkey_mismatch"
    /\ ix.saves = 0 /\ ix.upTo = {} /\ ix.attempted = {}
    /\ \A t \in IndexTasks : task[t].pc = "idle"

\* C1 witness: a run stopped by the mismatch check.
C1_Witness == ix.pc = "failed" /\ ix.err = "pathkey_mismatch" /\ MismatchAt(ix)

\* C4: while a run is uploading (or later), the record on disk holds
\* codebaseId, pathKey, pathKeyHash and repoName, saved by this run before its
\* first UploadFile call.
HasIdentity(d) ==
  /\ d.present /\ d.codebaseId # None /\ d.pathKey # None
  /\ d.pathKeyHash # None /\ d.repoName # None
C4_IdentitySavedBeforeUpload ==
  (ix.pc \in {"startBatch", "uploading", "ensure", "syncComplete", "save2"} \/ ix.upTo # {})
    => (ix.saves >= 1 /\ HasIdentity(disk))

\* C4 witness: an upload body is running on a workspace that had no record.
C4_Witness ==
  /\ ix.pc = "uploading" /\ ~ix.loaded.present
  /\ \E t \in IndexTasks : task[t].pc = "running"

\* C5 (as stated): the persisted pendingChanges goes from true to false only
\* in the final save of a cycle whose every step succeeded.
C5_ClearedOnlyAtEnd ==
  [][(disk.pendingChanges /\ ~disk'.pendingChanges)
       => (ix.pc = "save2" /\ ix'.pc = "done")]_vars

\* C7 (as stated): after a second handshake, uploads, sync-complete calls and
\* the persisted record use the second handshake's codebaseId and repoName,
\* and nothing is uploaded to the first handshake's codebaseId.
C7_NothingToFirstCodebase ==
  ix.hs2 # None =>
    /\ ix.upTo \subseteq {ix.hs2} /\ ix.syncTo \subseteq {ix.hs2}
    /\ ix.hs1 \notin ix.upTo

\* C10: a file whose every upload attempt failed is skipped without failing
\* the run: uploading never ends in failure, every file of the batch has been
\* attempted when the chunk returns, and a finished run made one ensure-index
\* and one sync-complete call per batch.
BatchSet(b) == {BatchOf(b)[k] : k \in DOMAIN BatchOf(b)}
C10_SkipNotAbort ==
  /\ [](ix.pc \in {"ensure", "syncComplete"} =>
          (BatchSet(ix.batch) \subseteq ix.attempted /\ ix.ensures >= ix.batch - 1))
  /\ [](ix.pc = "done" => (ix.ensures = NumBatches /\ ix.syncs = NumBatches))
  /\ [][ix.pc = "uploading" => ix'.pc \in {"uploading", "ensure"}]_vars

\* C10 witness: a run finished although a file exhausted its retries.
C10_Witness ==
  /\ ix.pc = "done" /\ ix.skipped # {}
  /\ \E f \in ix.skipped : ix.upCalls[f] = EngineRetries

Max2(a, b) == IF a >= b THEN a ELSE b

\* C3 (amended): an always-failing operation is invoked exactly
\* max(1, maxRetries) times and the caller receives the last attempt's error.
C3_RetryBudget ==
  \A t \in LibTasks :
    (task[t].kind = "retry" /\ task[t].pc = "rejected" /\ task[t].err > 0)
      => (task[t].calls = Max2(1, task[t].maxRetries) /\ task[t].err = task[t].calls)

\* C3 witness: a call with retries = 3 failed three times and was rejected.
C3_Witness ==
  \E t \in LibTasks :
    /\ task[t].kind = "retry" /\ task[t].pc = "rejected"
    /\ task[t].maxRetries = 3 /\ task[t].calls = 3 /\ task[t].err = 3
\* ---------------------------------------------------------------- auto-sync
\* C6: a run of autoSyncIfNeeded that loaded a record whose pendingChanges
\* is false makes no DiffNode query, no UploadFile, no EnsureIndex and no
\* SyncComplete call (it has no handshake at all), starts no task and leaves
\* state.json as it loaded it.
C6_NoOpWhenClean ==
  (as.outcome # "none" /\ ~as.loaded.pendingChanges) =>
     /\ as.pc = "idle"
     /\ df = IdleDf
     /\ RunningAuto = {}
     /\ as.uploaded = {} /\ as.upTo = {} /\ as.ensures = 0 /\ as.syncs = 0
     /\ as.writes = 0
     /\ loadWorkspaceState(disk) = as.loaded
C6_Witness ==
  /\ as.outcome = "noPending"
  /\ as.loaded.present /\ as.loaded.pathKey # None /\ as.runtimeId # None
  /\ ~disk.pendingChanges
  /\ changedFiles # {}

\* C8: when exactly one file differs from the remote index and every answer
\* was the remote's answer for that index (match for clean nodes, hints for
\* all children of stale ones), incrementalSync returns exactly that file,
\* having queried each of its ancestor directories.
Ancestors(f) == {SubSeq(f, 1, k) : k \in 0..(Len(f) - 1)}
C8_SingleLeafExact ==
  (as.pc = "diff" /\ df.pc = "loop" /\ ~LoopCond(df) /\ df.honest
     /\ Cardinality(changedFiles) = 1) =>
     /\ Changed(df) = changedFiles
     /\ \A f \in changedFiles : Ancestors(f) \subseteq df.queried

\* C9: incrementalSync never starts more than SYNC_MAX_ITERATIONS node
\* tasks, it returns whenever every query settles, and what it returns is
\* the union of r and s gathered up to then.
C9_CappedTermination ==
  /\ [](df.iterations <= syncMaxIterations /\ Cardinality(df.visited) <= df.iterations)
  /\ [][(as.pc = "diff" /\ as'.pc # "diff") =>
          (df.pc = "loop" /\ RunningAuto = {} /\ as'.changed = Changed(df))]_vars
  /\ ((as.pc = "diff") ~> (as.pc # "diff"))
C9_Witness ==
  /\ as.pc = "diff" /\ df.pc = "loop" /\ ~LoopCond(df)
  /\ df.iterations = syncMaxIterations
  /\ \E j \in DOMAIN df.queue : df.queue[j] \notin df.visited
  /\ Changed(df) # {}

\* ------------------------------------------------------- batch sequencing
\* C11: uploads are in flight only while indexProject awaits the current
\* batch, they are uploads of files of that batch, and when batch b starts
\* every earlier batch has had exactly one ensure-index and one
\* sync-complete call, the ensure-index call first.
Unsettled(s) == {t \in Tasks : SemOf(t) = s /\ task[t].pc \in {"queued", "granted", "running", "backoff"}}
C11_BatchesInSequence ==
  /\ (Unsettled("index") # {} => ix.pc = "uploading")
  /\ \A t \in Unsettled("index") : task[t].arg \in BatchSet(ix.batch)
  /\ (ix.pc \in {"startBatch", "uploading", "ensure"} =>
        (ix.ensures = ix.batch - 1 /\ ix.syncs = ix.batch - 1))
  /\ (ix.pc = "syncComplete" => (ix.ensures = ix.batch /\ ix.syncs = ix.batch - 1))
  /\ (ix.pc \in {"save2", "done"} => (ix.ensures = NumBatches /\ ix.syncs = NumBatches))
C11_Witness ==
  /\ ix.pc = "uploading" /\ ix.batch = 2
  /\ ix.ensures = 1 /\ ix.syncs = 1
  /\ \E t \in IndexTasks : task[t].pc = "running"

\* ------------------------------------------------------ order of a resync
\* C12: a run that has issued a DiffNode query has completed a handshake of
\* its own before it.
C12_HandshakeBeforeDiff ==
  (as.pc = "diff" /\ df.queried # {}) => as.hs # None

\* C13 (as stated): when the uploads of a resync are over, the files for
\* which UploadFile was called are exactly the change-set.
C13_Original ==
  as.pc \in {"ensure", "syncComplete", "save"} => as.uploaded = as.changed

\* C13 (amended): the uploads start when incrementalSync has returned with
\* no node task left; every UploadFile call is for a file of the returned
\* change-set, and a file of the change-set without a call is one whose
\* upload body returned early (unreadable or oversized).
C13_UploadAfterDiff ==
  /\ [](as.uploaded \subseteq as.changed)
  /\ [](as.pc = "diff" => (as.uploaded = {} /\ as.changed = {}))
  /\ [](as.pc = "uploading" =>
          (df = IdleDf /\ \A t \in Unsettled("auto") : task[t].arg \in as.changed))
  /\ [][(as.pc = "diff" /\ as'.pc = "uploading") =>
          (RunningAuto = {} /\ as'.changed = Changed(df))]_vars
  /\ [](as.pc \in {"ensure", "syncComplete", "save"} =>
          \A f \in as.changed \ as.uploaded :
            \E t \in AutoTasks : task[t].arg = f /\ task[t].pc = "resolved")
C13_Witness ==
  /\ as.pc = "ensure"
  /\ as.uploaded # {} /\ as.uploaded # as.changed

\* ------------------------------------------------------ calls and slots
\* C14: while a handshake, ensure-index or sync-complete call of
\* indexProject is in flight the run holds a slot of its Semaphore, and the
\* uploads in flight never exceed the concurrency.
C14_CallsHoldSlot ==
  /\ (ix.pc \in {"handshake", "rehandshake", "ensure", "syncComplete"} => counter["index"] >= 1)
  /\ Cardinality(Running("index")) <= max["index"]

\* C15: a node task that has settled after its DiffNode query failed has
\* issued the query as many times as the retry budget allows.
C15_FailedQueryRetried ==
  \A t \in AutoTasks :
    (as.pc = "diff" /\ task[t].pc \in {"resolved", "rejected"} /\ task[t].arg \in df.failed)
      => task[t].calls >= Max2(1, task[t].maxRetries)

\* ------------------------------------------------------ Semaphore slots
\* C16: the slot counter equals the number of calls that hold a slot (woken
\* or admitted, body not yet settled), so each acquired slot is given back
\* exactly once; when every call has settled the counter is 0 and nobody
\* waits.
Holding(s) == {t \in Tasks : SemOf(t) = s /\ task[t].pc \in {"granted", "running"}}
C16_ReleasedExactlyOnce ==
  /\ counter["lib"] = Cardinality(Holding("lib"))
  /\ (Settled("lib") => (counter["lib"] = 0 /\ waiting["lib"] = <<>>))
C16_Witness ==
  /\ Settled("lib") /\ counter["lib"] = 0
  /\ \E t \in LibTasks : task[t].pc = "resolved"
  /\ \E t \in LibTasks : task[t].pc = "rejected" /\ task[t].err > NoErr
  /\ \E t \in LibTasks : task[t].pc = "rejected" /\ task[t].err = AbortedErr /\ task[t].calls = 0

\* ---------------------------------------------------------- cancellation
\* C17: once the signal is raised no operation body is started any more, a
\* call never resolves without its body having run, and a running body ends
\* only by settling and giving its slot back (to the counter or to the first
\* waiter).
C17_NoStartAfterAbort ==
  /\ [][aborted["lib"] => \A t \in LibTasks : task'[t].calls = task[t].calls]_vars
  /\ [](\A t \in LibTasks : task[t].pc = "resolved" => task[t].calls >= 1)
  /\ [][\A t \in LibTasks :
          (task[t].pc = "running" /\ task'[t].pc # "running") =>
            /\ task'[t].pc \in {"resolved", "rejected", "backoff"}
            /\ \/ counter'["lib"] = counter["lib"] - 1
               \/ Len(waiting'["lib"]) = Len(waiting["lib"]) - 1]_vars
C17_Witness ==
  /\ aborted["lib"]
  /\ \E t \in LibTasks : task[t].pc = "running"
  /\ \E t \in LibTasks : task[t].pc = "rejected" /\ task[t].err = AbortedErr /\ task[t].calls = 0

\* C18: after the signal is raised, a withRetrySemaphore call that is queued
\* for a slot, holds a slot without having started its body, or is between
\* attempts does not begin a backoff wait any more.
C18_FailFastBetweenAttempts ==
  [][\A t \in LibTasks :
       (aborted["lib"] /\ task[t].kind = "retry" /\ task[t].pc \in {"queued", "granted"})
         => task'[t].pc # "backoff"]_vars

\* ------------------------------------------------------------------ FIFO
\* C19: `waiting` holds the blocked callers in the order of their acquire
\* calls; a release hands the slot to the first of them, and while anyone
\* waits no slot is free, so a caller arriving later is queued behind.
C19_Fifo ==
  /\ [](waiting["lib"] # <<>> => counter["lib"] = max["lib"])
  /\ [][\A t \in LibTasks :
          (task[t].pc = "queued" /\ task'[t].pc = "granted") =>
            (t = Head(waiting["lib"]) /\ waiting'["lib"] = Tail(waiting["lib"]))]_vars
  /\ [][\A t \in LibTasks :
          (task[t].pc \in {"idle", "backoff"} /\ task'[t].pc = "granted") =>
            waiting["lib"] = <<>>]_vars
  /\ [][\/ waiting'["lib"] = waiting["lib"]
        \/ waiting["lib"] # <<>> /\ waiting'["lib"] = Tail(waiting["lib"])
        \/ \E t \in LibTasks : task[t].pc \in {"idle", "backoff"}
                                /\ waiting'["lib"] = Append(waiting["lib"], t)]_vars
C19_Witness ==
  /\ max["lib"] = 1
  /\ Len(waiting["lib"]) >= 1
  /\ \E t \in LibTasks : task[t].pc = "granted"
  /\ \E t \in LibTasks : task[t].pc \in {"resolved", "rejected"}

\* --------------------------------------------------------------- backoff
\* C20: the wait that follows failed attempt i is delayMs * i and is made
\* only when another attempt follows: attempt i starts after the wait
\* delayMs * (i - 1), and the final attempt rejects without a wait.
C20_LinearBackoff ==
  \A t \in LibTasks :
    task[t].kind = "retry" =>
      /\ (task[t].pc = "backoff" =>
            (task[t].waitTime = DelayMs * task[t].i /\ task[t].i < task[t].maxRetries))
      /\ (task[t].pc \in {"queued", "granted", "running"} =>
            task[t].waitTime = DelayMs * (task[t].i - 1))
      /\ ((task[t].pc = "rejected" /\ task[t].final) =>
            task[t].waitTime = DelayMs * (task[t].i - 1))
C20_Witness ==
  \E t \in LibTasks :
    /\ task[t].pc = "rejected" /\ task[t].final
    /\ task[t].calls = 3 /\ task[t].i = 3
    /\ task[t].waitTime = 2 * DelayMs

\* ------------------------------------------------------------ state record
InLock(c) == op[c].pc \in {"reading", "removeTmp", "write", "writing", "move", "cleanup"}
Saving(c) == op[c].kind = "save" /\ InLock(c)

\* C21: state.json never holds a partly written text; while a save is at
\* work and after it failed (the temp file or the rename), state.json holds
\* what it held when the save began and the caller gets the error; only the
\* rename puts the new record there, whole; a crash changes no file.
C21_AtomicSave ==
  /\ [](\A r \in Roots : stateFile[r].kind # "partial")
  /\ [](\A c \in StateCallers : Saving(c) => stateFile[op[c].root] = op[c].before)
  /\ [][\A c \in StateCallers :
          (op[c].pc = "cleanup" /\ op'[c].pc = "done") =>
            /\ op'[c].result = "thrown" /\ op'[c].err \in {"write", "rename"}
            /\ stateFile'[op[c].root] = op[c].before]_vars
  /\ [][\A c \in StateCallers :
          (Saving(c) /\ op'[c].pc = "done" /\ op'[c].result = "ok") =>
            /\ op[c].pc = "move"
            /\ stateFile'[op[c].root] = toPersistFile(op[c].st)]_vars
  /\ [][((\E c \in StateCallers : InLock(c)) /\ (\A c \in StateCallers : op'[c] = IdleOp))
          => stateFile' = stateFile]_vars

\* C21 witness: a save failed at the rename, its temp file was written in
\* full, and state.json still holds the record from before.
C21_Witness ==
  \E c \in StateCallers :
    /\ op[c].kind = "save" /\ op[c].pc = "done"
    /\ op[c].result = "thrown" /\ op[c].err = "rename"
    /\ stateFile[op[c].root] = FileContent("json", op[c].root, "X", "true")
    /\ tmpFile[op[c].root] = toPersistFile(op[c].st)

\* C22: two calls for one workspace root are never inside the lock (at
\* their file steps) together, and a call waits for the lock only while a
\* call for the same root is inside it.
C22_SerializedPerRoot ==
  /\ \A c \in StateCallers, d \in StateCallers :
       (c # d /\ InLock(c) /\ InLock(d)) => op[c].root # op[d].root
  /\ \A c \in StateCallers :
       op[c].pc = "waiting" =>
         \E d \in StateCallers : d # c /\ InLock(d) /\ op[d].root = op[c].root

\* C22 witness: a save for one root is at its file steps, a call for the
\* same root waits, and a call for the other root is at its file steps too.
C22_Witness ==
  \E c \in StateCallers, d \in StateCallers, e \in StateCallers :
    /\ Saving(c) /\ op[d].pc = "waiting" /\ op[d].root = op[c].root
    /\ InLock(e) /\ op[e].root # op[c].root

\* C23: a load that got past ensureDir never throws; for a record that is
\* absent, unparsable or without workspacePath it returns { workspacePath }
\* alone, and no load changes state.json.
Unusable(content) == content.kind # "json" \/ content.workspacePath = None
C23_LoadNeverFails ==
  /\ [](\A c \in StateCallers :
          (op[c].kind = "load" /\ op[c].pc = "done" /\ op[c].err # "ensureDir") =>
            /\ op[c].result = "ok"
            /\ (Unusable(op[c].before) => op[c].ret = MinimalState(op[c].root)))
  /\ [][\A c \in StateCallers :
          (op[c].kind = "load" /\ op[c].pc = "reading" /\ op'[c].pc # "reading")
            => (stateFile' = stateFile /\ tmpFile' = tmpFile)]_vars

\* C23 witness: a load of a record that parses but has no workspacePath
\* returned the minimal state, and the record is still there.
C23_Witness ==
  \E c \in StateCallers :
    /\ op[c].kind = "load" /\ op[c].pc = "done" /\ op[c].result = "ok"
    /\ op[c].before = FileContent("json", None, "X", "true")
    /\ op[c].ret = MinimalState(op[c].root)
    /\ stateFile[op[c].root] = op[c].before

\* ------------------------------------------------------- record identity
\* C24: a record written by indexProject, by markChanged or by
\* autoSyncIfNeeded that holds both pathKey and pathKeyHash holds the hash
\* of that pathKey, when the record its writer loaded did (or was empty).
Consistent(d) ==
  (d.pathKey # None /\ d.pathKeyHash # None) => d.pathKeyHash = sha256Hex(d.pathKey)
WriterLoaded ==
  IF ix' # ix THEN ix.loaded ELSE IF wt' # wt THEN wt.st ELSE as.loaded
C24_HashOfPathKey ==
  [][(disk' # disk /\ Consistent(WriterLoaded)) => Consistent(disk')]_vars

\* C24 witness: indexProject began without a record, and later an auto-sync
\* rewrote the record, which holds a pathKey and its hash.
C24_Witness ==
  /\ ix.pc = "done" /\ ~ix.loaded.present
  /\ as.outcome = "synced" /\ as.writes = 1 /\ Consistent(as.loaded)
  /\ hasLocalPathKey(disk) /\ disk.pathKeyHash = sha256Hex(disk.pathKey)

\* C25: a record that replaces a record holding a pathKey holds the same
\* pathKey, whatever codebaseId either carries; so any two records written
\* with the same codebaseId carry the same pathKey.
C25_PathKeyFixed ==
  [][(disk.pathKey # None /\ disk' # disk) =>
       (disk'.pathKey = disk.pathKey /\ disk'.codebaseId # None)]_vars

\* C25 witness: a second indexProject run ended on the codebaseId and the
\* pathKey of the record it loaded, which had been marked changed meanwhile.
C25_Witness ==
  /\ ix.run = 2 /\ ix.pc = "done" /\ ~as.loaded.pendingChanges
  /\ ix.loaded.present /\ ix.loaded.pendingChanges
  /\ disk.codebaseId = ix.loaded.codebaseId /\ disk.pathKey = ix.loaded.pathKey

\* ---------------------------------------------------- runtime codebase cache
\* C26 (as stated): an auto-sync that has sent a DiffNode query, an
\* UploadFile or a SyncComplete request sent it to the codebaseId of the
\* record it loaded at its start.
C26_OnlyRecordCodebase ==
  (as.outcome # "none" /\ (df.queried # {} \/ as.upTo # {} \/ as.syncs > 0))
    => (as.runtimeId = as.loaded.codebaseId /\ as.upTo \subseteq {as.loaded.codebaseId})

\* ------------------------------------------------------- path round trip
\* C27 (as stated): a path encrypted and decrypted under one key comes back
\* as it was (so no two paths have the same encrypted form).
C27_RoundTrip ==
  (px.pc = "decrypted" /\ px.dkey = px.key) => (~px.thrown /\ px.dec = px.path)

\* C28 (as stated): decrypting the encrypted form of a path that has a name
\* in it under another key than the one used to encrypt ends in an error and
\* returns no text.
C28_WrongKeyFails ==
  (px.pc = "decrypted" /\ px.dkey # px.key /\ px.path # Root) => px.thrown

\* -------------------------------------------------------------- new paths
\* C29 (as stated): local entries that the hints of their parent do not name
\* are in s (files) or in n (directories), and what incrementalSync returns
\* holds both sets.
C29_NewPathsReturned ==
  (as.pc = "diff" /\ df.pc = "loop" /\ ~LoopCond(df)) =>
     /\ df.s \subseteq Changed(df)
     /\ df.n \subseteq Changed(df)

\* ------------------------------------------------------------- fresh index
\* C30: an indexProject run that began without a record, on a tree whose
\* files were all read and whose remote calls all succeeded, ends having
\* obtained a codebaseId and made exactly one UploadFile call for each file of
\* the tree, and its last save leaves a record with that codebaseId, a
\* pathKey with its hash, and pendingChanges false.
C30_FreshIndex ==
  [][(ix.pc = "save2" /\ ix'.pc = "done" /\ ~ix.loaded.present
        /\ ~ix.threw /\ ~ix.unread) =>
       /\ ix.codebaseId # None /\ disk'.codebaseId = ix.codebaseId
       /\ \A f \in AllFiles : ix.upCalls[f] = (IF f \in tree THEN 1 ELSE 0)
       /\ ix.upTo = {ix.codebaseId}
       /\ disk'.pathKey # None /\ disk'.pathKeyHash = sha256Hex(disk'.pathKey)
       /\ ~disk'.pendingChanges]_vars

\* C30 witness: such a run is done: three files in two batches, one call
\* each, nothing thrown or skipped.
C30_Witness ==
  /\ ix.pc = "done" /\ ix.run = 1 /\ ~ix.loaded.present
  /\ ~ix.threw /\ ~ix.unread /\ ix.skipped = {}
  /\ Cardinality(tree) = NFiles /\ NumBatches = 2
  /\ \A f \in tree : ix.upCalls[f] = 1
  /\ disk.codebaseId = ix.codebaseId /\ ~disk.pendingChanges

\* -------------------------------------------------------------- file window
\* The window asked for: first and last line number after clamping
WindowFirst == MathMax(1, cs.startLine)
WindowLast == MathMax(WindowFirst, cs.endLine)

\* C31: readFileWindow returns the file's lines numbered from max(1, s)
\* through max(that, e), in file order and without the lines the file does
\* not have; an unreadable file gives the empty list and no error.
C31_FileWindow ==
  (cs.pc \in {"window", "preview"}) =>
     IF cs.readable
       THEN /\ Len(cs.lines) =
                 MathMax(0, (IF WindowLast < Len(cs.file) THEN WindowLast
                             ELSE Len(cs.file)) - WindowFirst + 1)
            /\ \A i \in 1..Len(cs.lines) : cs.lines[i] = cs.file[WindowFirst + i - 1]
       ELSE cs.lines = <<>>

\* C31 witness: a window that starts inside the file and is cut by its end,
\* asked for with a start below 1
C31_Witness ==
  /\ cs.pc = "window" /\ cs.readable
  /\ cs.startLine < 1 /\ cs.endLine > Len(cs.file) /\ Len(cs.file) = 3
  /\ cs.lines = cs.file

\* ------------------------------------------------------------ code preview
\* C32: readCodeFromFile returns the lines of the window joined by newlines
\* when there are at most 6 of them, and otherwise its first 4 lines, the
\* marker line and its last 2 lines, joined by newlines in that order.
C32_Preview ==
  (cs.pc = "preview") =>
     LET w == cs.lines
         n == Len(w)
         shown == IF n <= 6 THEN w
                  ELSE <<w[1], w[2], w[3], w[4], OmittedMarker, w[n - 1], w[n]>>
     IN /\ cs.preview = JoinLines(shown)
        /\ n > 0 => Len(cs.preview) =
                      (Len(shown) - 1) + Cardinality({i \in 1..Len(shown) : shown[i] # <<>>})

\* C32 witness: a window of eight lines is shown as 4 + marker + 2
C32_Witness ==
  /\ cs.pc = "preview" /\ Len(cs.lines) = 8
  /\ cs.preview = <<"1", NewLine, "2", NewLine, "3", NewLine, "4", NewLine,
                    OmittedMarker[1], NewLine, "7", NewLine, "8">>

\* ------------------------------------------------- change during a resync
\* C33: a change the watcher marked while a run was in progress is still on
\* record when the run has finished: when indexProject, which loaded a
\* record with pendingChanges false, makes its last save over a record that
\* the watcher has meanwhile set to true, and no markChanged is under way,
\* the persisted pendingChanges stays true.
C33_ChangeNotLost ==
  [][(ix.pc = "save2" /\ ix'.pc = "done" /\ wt.pc = "idle"
        /\ ~ix.loaded.pendingChanges /\ disk.pendingChanges)
       => disk'.pendingChanges]_vars

\* ------------------------------------------------ identity under the watcher
\* The identity fields of a record
IdentityOf(d) == <<d.codebaseId, d.pathKey, d.pathKeyHash, d.repoName>>

\* C34: the save that ends a markChanged never changes the identity fields
\* of the persisted record: an identity indexProject saved after the load of
\* markChanged stays on record.
C34_WatcherKeepsIdentity ==
  [][(wt.pc = "loaded" /\ wt'.pc = "idle" /\ disk' # disk)
       => IdentityOf(disk') = IdentityOf(disk)]_vars

\* ------------------------------------------------------- one resync at a time
\* A run of indexProject that is between its load and its end
IndexInProgress == ix.pc \notin {"idle", "done", "failed"}
\* A run of autoSyncIfNeeded that is diffing, uploading or completing
AutoSyncInProgress == as.pc # "idle"

\* C35: an auto-sync is never diffing or uploading while an indexProject run
\* of the same workspace is in progress, and no file has an upload of each
\* of the two runs under way at the same time.
C35_OneResync ==
  /\ ~(AutoSyncInProgress /\ IndexInProgress)
  /\ \A t \in IndexTasks, u \in AutoTasks :
       ~(task[t].pc = "running" /\ task[u].pc = "running"
           /\ as.pc = "uploading" /\ task[t].arg = task[u].arg)

\* ------------------------------------------------------ pending is cleared
\* C36: on an indexed workspace whose record has pendingChanges true, with
\* no change signal arriving and every remote call answered, the auto-sync
\* runs lead to a record with pendingChanges false, whatever the diff finds.
C36_EventuallyClean ==
  [](( /\ disk.pendingChanges /\ disk.seed
       /\ disk.codebaseId # None /\ disk.pathKey # None)
       => <>(~disk.pendingChanges))

\* ------------------------------------------------------ one index run per path
\* C37: no workspace path ever has two indexProject runs in flight; a
\* create_index call for a path whose task is pending or indexing starts no
\* run and answers with that status, and a run starts only for a path whose
\* task is absent, completed or failed.
C37_OneRunPerPath ==
  [][\A w \in ServerPaths :
       /\ srv'.inFlight[w] <= 1
       /\ (srv'.calls > srv.calls /\ srv'.reply.path = w
             /\ srv.indexingTasks[w] \in {"pending", "indexing"})
            => /\ srv'.inFlight = srv.inFlight
               /\ srv'.reply.status = srv.indexingTasks[w] /\ ~srv'.reply.started
       /\ srv'.inFlight[w] > srv.inFlight[w]
            => srv.indexingTasks[w] \in {"none", "completed", "failed"}]_vars

\* C37 witness: a call for a path, written another way, whose run is still
\* in flight has been refused
C37_Witness ==
  /\ srv.calls >= 2 /\ srv.reply.path = <<"w1">> /\ ~srv.reply.started
  /\ srv.reply.status = "indexing" /\ srv.inFlight[<<"w1">>] = 1

\* ---------------------------------------------------------------- debounce
\* C38: while the watcher is not closed, every delivered event that no
\* markChanged call has followed yet is in the pending set with a timer
\* armed that is due no later than one debounce period after the event;
\* this holds for events that arrive while a timer is pending and while a
\* flush is in progress, so the call comes within one period.
C38_EventsFlushed ==
  ~fw.closed =>
    /\ (fw.unmarked # {}) = (fw.pending # {})
    /\ \A e \in fw.unmarked :
         /\ fw.timer.armed
         /\ fw.timer.due <= e.at + DebounceTicks
         /\ fw.now <= fw.timer.due

\* C38 witness: an event arrived during a flush and another while its timer
\* was pending, and a second markChanged call has followed both
C38_Witness ==
  /\ ~fw.closed /\ fw.marks = 2 /\ fw.flushing = 2
  /\ fw.delivered = 3 /\ fw.unmarked = {} /\ fw.now = 4

\* -------------------------------------------------------------- no idle slot
\* C39: callers wait in the queue only while every slot is taken, and a
\* caller in the queue is given a slot in the end, every slot holder
\* releasing its slot.
C39_NoIdleSlot ==
  /\ [](waiting["lib"] # <<>> => counter["lib"] = max["lib"])
  /\ \A t \in LibTasks : (task[t].pc = "queued") ~> (task[t].pc = "granted")

\* C39 witness: the one slot is held by a caller let in, a release has
\* happened and another caller is still in the queue
C39_Witness ==
  /\ max["lib"] = 1 /\ counter["lib"] = 1 /\ Len(waiting["lib"]) = 1
  /\ \E t \in LibTasks : task[t].pc = "granted"
  /\ \E t \in LibTasks : task[t].pc = "backoff"

\* ------------------------------------------------------ backoff and slots
\* The calls that are waiting out a backoff delay
InBackoff == {t \in LibTasks : task[t].pc = "backoff"}

\* C40: a call in its backoff wait holds no slot: the slots in use are those
\* of the calls let in or running; the step that puts a call into its
\* backoff frees its slot or hands it to the first caller in the queue; and
\* while a call is in its backoff another caller can be let in.
C40_BackoffHoldsNoSlot ==
  /\ [](InBackoff # {} =>
          counter["lib"] = Cardinality({t \in LibTasks : task[t].pc \in {"granted", "running"}}))
  /\ [][\A t \in LibTasks :
          (task[t].pc \in {"granted", "running"} /\ task'[t].pc = "backoff") =>
             IF waiting["lib"] # <<>>
               THEN /\ task'[Head(waiting["lib"])].pc = "granted"
                    /\ waiting'["lib"] = Tail(waiting["lib"])
                    /\ counter'["lib"] = counter["lib"]
               ELSE counter'["lib"] = counter["lib"] - 1]_vars
  /\ [][\A t \in LibTasks :
          (InBackoff \ {t} # {} /\ task[t].pc = "idle" /\ task'[t].pc # "idle"
             /\ ~aborted["lib"] /\ counter["lib"] < max["lib"])
            => task'[t].pc = "granted"]_vars

\* C40 witness: on a Semaphore of one slot two calls are in their backoff
\* wait and the third, which was behind them, is running
C40_Witness ==
  /\ max["lib"] = 1 /\ Cardinality(InBackoff) = 2
  /\ \E t \in LibTasks : task[t].pc = "running"

====
